---- MODULE Spec2Model ----
(***************************************************************************)
(* A model of the stun_codec crate: the STUN message header, the TLV       *)
(* attribute framing with lossless padding, the streaming MessageDecoder   *)
(* and MessageEncoder, and the attribute catalog of RFC 5389, RFC 5766,    *)
(* RFC 5245, RFC 5780 and RFC 8016.                                        *)
(*                                                                         *)
(* Bytes are naturals in 0..255 and byte strings are sequences of bytes.   *)
(* 32 and 64 bit quantities are kept as big-endian byte strings, as they   *)
(* are on the wire; 16 bit quantities are naturals below 65536.            *)
(***************************************************************************)
EXTENDS Integers, Sequences, FiniteSets, TLC

VARIABLES fin, fout, scen, pc, msg, encoder, out, encErr, input, pos, decoder, decErr, result, hist

pureVars == <<fin, fout>>

(***************************************************************************)
(* Fixed-width integer operators of the source language.                   *)
(***************************************************************************)
Pow2(n) == 2 ^ n

RECURSIVE BitAnd(_, _)
BitAnd(a, b) ==
    IF a = 0 \/ b = 0 THEN 0
    ELSE (a % 2) * (b % 2) + 2 * BitAnd(a \div 2, b \div 2)

RECURSIVE BitOr(_, _)
BitOr(a, b) ==
    IF a = 0 THEN b
    ELSE IF b = 0 THEN a
    ELSE (IF a % 2 = 1 \/ b % 2 = 1 THEN 1 ELSE 0) + 2 * BitOr(a \div 2, b \div 2)

RECURSIVE BitXor(_, _)
BitXor(a, b) ==
    IF a = 0 THEN b
    ELSE IF b = 0 THEN a
    ELSE (((a % 2) + (b % 2)) % 2) + 2 * BitXor(a \div 2, b \div 2)

\* x << n on a u16: bits shifted past bit 15 are dropped.
Shl16(x, n) == (x * Pow2(n)) % 65536

\* x >> n on an unsigned integer.
Shr(x, n) == x \div Pow2(n)

\* u16 <-> two big-endian bytes (U16beEncoder / U16beDecoder).
U16be(x) == <<x \div 256, x % 256>>

U16from(bs) == bs[1] * 256 + bs[2]

Min(a, b) == IF a < b THEN a ELSE b

\* a - b, or 0 when b exceeds a.
Monus(a, b) == IF a > b THEN a - b ELSE 0

Take(s, n) == SubSeq(s, 1, Min(n, Len(s)))

Drop(s, n) == SubSeq(s, Min(n, Len(s)) + 1, Len(s))

Zeros(n) == [i \in 1..n |-> 0]

\* F applied to the value of e: e is computed once, whatever F does with it.
With(e, F(_)) == CHOOSE y \in {F(v) : v \in {e}} : TRUE

(***************************************************************************)
(* constants.rs                                                            *)
(***************************************************************************)
\* 0x2112A442 as the four bytes the U32beEncoder writes.
MAGIC_COOKIE == <<33, 18, 164, 66>>

\* (MAGIC_COOKIE >> 16) as u16 = 0x2112
MagicCookieHigh16 == 8466

(***************************************************************************)
(* message.rs: MessageClass and Type                                       *)
(***************************************************************************)
MessageClasses == 0..3

MethodLimit == 4096

\* MessageClass::from_u8: Some(class) for 0..3, None otherwise.
MessageClass_from_u8(value) ==
    IF value \in MessageClasses THEN [some |-> TRUE, class |-> value]
    ELSE [some |-> FALSE, class |-> 0]

\* Type::as_u16
Type_as_u16(class, method) ==
    BitOr(BitOr(BitOr(BitOr(
        BitAnd(method, 15),
        Shl16(BitAnd(class, 1), 4)),
        Shl16(BitAnd(method, 112), 5)),
        Shl16(BitAnd(class, 2), 7)),
        Shl16(BitAnd(method, 3968), 9))

\* Type::from_u16
Type_from_u16(value) ==
    IF Shr(value, 14) # 0
    THEN [ok |-> FALSE, err |-> "InvalidInput", class |-> 0, method |-> 0]
    ELSE [ok |-> TRUE, err |-> "",
          class |-> MessageClass_from_u8(
                        BitOr(BitAnd(Shr(value, 4), 1), BitAnd(Shr(value, 7), 2))).class,
          method |-> BitOr(BitOr(BitAnd(value, 15), BitAnd(Shr(value, 1), 112)),
                           BitAnd(Shr(value, 2), 3968))]

(***************************************************************************)
(* net.rs: socket_addr_xor                                                 *)
(***************************************************************************)
FAMILY_IPV4 == 1

FAMILY_IPV6 == 2

\* A SocketAddr is [fam, ip, port]: fam is 4 (V4, four octets) or 6 (V6,
\* sixteen octets).
\* A variant that adds the cookie's high half to the port instead of xoring it.
socket_addr_xor_adding(addr, transaction_id) ==
    [fam |-> addr.fam,
     port |-> (addr.port + MagicCookieHigh16) % 65536,
     ip |-> [i \in 1..(IF addr.fam = 4 THEN 4 ELSE 16) |->
                BitXor(addr.ip[i], IF i <= 4 THEN MAGIC_COOKIE[i] ELSE transaction_id[i - 4])]]

\* A variant that xors every IPv6 octet after the first four with the first
\* byte of the transaction id.
socket_addr_xor_first_byte(addr, transaction_id) ==
    [fam |-> addr.fam,
     port |-> BitXor(addr.port, MagicCookieHigh16),
     ip |-> [i \in 1..(IF addr.fam = 4 THEN 4 ELSE 16) |->
                BitXor(addr.ip[i], IF i <= 4 THEN MAGIC_COOKIE[i] ELSE transaction_id[1])]]

\* socket_addr_xor
socket_addr_xor(addr, transaction_id) ==
    [fam |-> addr.fam,
     port |-> BitXor(addr.port, MagicCookieHigh16),
     ip |-> [i \in 1..(IF addr.fam = 4 THEN 4 ELSE 16) |->
                BitXor(addr.ip[i], IF i <= 4 THEN MAGIC_COOKIE[i] ELSE transaction_id[i - 4])]]

(***************************************************************************)
(* Results.  Ok(v) and Err(kind) of the source; the error kinds are those   *)
(* of bytecodec::ErrorKind.                                                *)
(***************************************************************************)
Ok(v) == [ok |-> TRUE, err |-> "", val |-> v]

Err(kind) == [ok |-> FALSE, err |-> kind, val |-> <<>>]

(***************************************************************************)
(* method.rs: Method                                                       *)
(***************************************************************************)
\* A variant that accepts the codepoint 0x1000 too.
Method_new_inclusive(codepoint) ==
    IF codepoint <= MethodLimit THEN Ok(codepoint) ELSE Err("InvalidInput")

\* Method::new
Method_new(codepoint) ==
    IF codepoint < MethodLimit THEN Ok(codepoint) ELSE Err("InvalidInput")

\* From<u8> for Method: the u8 widened to u16.
Method_from_u8(f) == f % 65536

\* The method constants: BINDING of rfc5389::methods, and ALLOCATE, REFRESH,
\* SEND, DATA, CREATE_PERMISSION, CHANNEL_BIND of rfc5766::methods.
MethodConstants == {1, 3, 4, 6, 7, 8, 9}

(***************************************************************************)
(* UTF-8 as String::from_utf8 accepts it, and str::chars().count().        *)
(***************************************************************************)
IsCont(b) == b >= 128 /\ b <= 191

\* The length of the well-formed sequence that starts at byte i, or 0 when
\* there is none.
Utf8Width(bs, i) ==
    IF bs[i] <= 127 THEN 1
    ELSE IF bs[i] >= 194 /\ bs[i] <= 223
         THEN IF Len(bs) >= i + 1 /\ IsCont(bs[i + 1]) THEN 2 ELSE 0
    ELSE IF bs[i] >= 224 /\ bs[i] <= 239
         THEN IF /\ Len(bs) >= i + 2
                 /\ IsCont(bs[i + 1])
                 /\ (bs[i] = 224 => bs[i + 1] >= 160)
                 /\ (bs[i] = 237 => bs[i + 1] <= 159)
                 /\ IsCont(bs[i + 2])
              THEN 3 ELSE 0
    ELSE IF bs[i] >= 240 /\ bs[i] <= 244
         THEN IF /\ Len(bs) >= i + 3
                 /\ IsCont(bs[i + 1])
                 /\ (bs[i] = 240 => bs[i + 1] >= 144)
                 /\ (bs[i] = 244 => bs[i + 1] <= 143)
                 /\ IsCont(bs[i + 2])
                 /\ IsCont(bs[i + 3])
              THEN 4 ELSE 0
    ELSE 0

\* The bytes are a run of well-formed sequences: the first byte starts one,
\* and every byte that starts one is followed, after its sequence, by the
\* end or by another start.
IsUtf8(bs) ==
    /\ bs # <<>> => ~IsCont(bs[1])
    /\ \A i \in 1..Len(bs) :
          ~IsCont(bs[i]) =>
              /\ Utf8Width(bs, i) > 0
              /\ i + Utf8Width(bs, i) <= Len(bs) => ~IsCont(bs[i + Utf8Width(bs, i)])

CharsCount(bs) == Cardinality({i \in 1..Len(bs) : ~IsCont(bs[i])})

(***************************************************************************)
(* The attribute catalog.  An attribute value is [kind, v]; the shape of v *)
(* depends on the kind:                                                    *)
(*   address kinds        v = [fam, ip, port]                              *)
(*   text kinds           v = the UTF-8 bytes of the string                *)
(*   ErrorCode            v = [code, reason_phrase]                        *)
(*   UnknownAttributes    v = a sequence of u16                            *)
(*   MessageIntegrity     v = [hmac_sha1, preceding_message_bytes]         *)
(*   Fingerprint, Lifetime, Priority        v = the u32 as 4 bytes         *)
(*   ReservationToken, IceControlled, IceControlling  v = the u64, 8 bytes *)
(*   ChannelNumber, ResponsePort            v = a u16                      *)
(*   RequestedTransport   v = a u8          EvenPort  v = a BOOLEAN        *)
(*   ChangeRequest        v = [ip, port]    Data, MobilityTicket v = bytes *)
(*   DontFragment, UseCandidate             v = <<>>                       *)
(*   Raw (RawAttribute)   v = [attr_type, value]                           *)
(***************************************************************************)
AddressKinds == {"MappedAddress", "AlternateServer", "XorMappedAddress",
                 "XorMappedAddress2", "XorPeerAddress", "XorRelayAddress",
                 "ResponseOrigin", "OtherAddress"}

XorKinds == {"XorMappedAddress", "XorMappedAddress2", "XorPeerAddress", "XorRelayAddress"}

TextKinds == {"Username", "Realm", "Nonce", "Software"}

U32Kinds == {"Fingerprint", "Lifetime", "Priority", "ChannelNumber",
             "RequestedTransport", "ChangeRequest", "ResponsePort"}

U64Kinds == {"ReservationToken", "IceControlled", "IceControlling"}

NullKinds == {"DontFragment", "UseCandidate"}

BytesKinds == {"Data", "MobilityTicket"}

Rfc5389Kinds == {"MappedAddress", "Username", "MessageIntegrity", "ErrorCode",
                 "UnknownAttributes", "Realm", "Nonce", "XorMappedAddress",
                 "Software", "AlternateServer", "Fingerprint"}

Rfc5766Kinds == Rfc5389Kinds \cup
                {"ChannelNumber", "Lifetime", "XorPeerAddress", "Data",
                 "XorRelayAddress", "EvenPort", "RequestedTransport",
                 "DontFragment", "ReservationToken"}

Rfc5245Kinds == {"Priority", "UseCandidate", "IceControlled", "IceControlling"}

Rfc5780Kinds == {"ChangeRequest", "ResponseOrigin", "ResponsePort", "OtherAddress"}

CatalogKinds == Rfc5766Kinds \cup Rfc5245Kinds \cup Rfc5780Kinds \cup
                {"XorMappedAddress2", "MobilityTicket"}

\* The CODEPOINT constant of each attribute type.
CODEPOINT(kind) ==
    CASE kind = "MappedAddress" -> 1
      [] kind = "ChangeRequest" -> 3
      [] kind = "Username" -> 6
      [] kind = "MessageIntegrity" -> 8
      [] kind = "ErrorCode" -> 9
      [] kind = "UnknownAttributes" -> 10
      [] kind = "ChannelNumber" -> 12
      [] kind = "Lifetime" -> 13
      [] kind = "XorPeerAddress" -> 18
      [] kind = "Data" -> 19
      [] kind = "Realm" -> 20
      [] kind = "Nonce" -> 21
      [] kind = "XorRelayAddress" -> 22
      [] kind = "EvenPort" -> 24
      [] kind = "RequestedTransport" -> 25
      [] kind = "DontFragment" -> 26
      [] kind = "XorMappedAddress" -> 32
      [] kind = "ReservationToken" -> 34
      [] kind = "Priority" -> 36
      [] kind = "UseCandidate" -> 37
      [] kind = "ResponsePort" -> 39
      [] kind = "XorMappedAddress2" -> 32800
      [] kind = "Software" -> 32802
      [] kind = "AlternateServer" -> 32803
      [] kind = "Fingerprint" -> 32808
      [] kind = "IceControlled" -> 32809
      [] kind = "IceControlling" -> 32810
      [] kind = "ResponseOrigin" -> 32811
      [] kind = "OtherAddress" -> 32812
      [] kind = "MobilityTicket" -> 32816

\* Attribute::get_type
get_type(a) == IF a.kind = "Raw" THEN a.v.attr_type ELSE CODEPOINT(a.kind)

(***************************************************************************)
(* Value encoders: the bytes each attribute's Encoder writes for an item.  *)
(***************************************************************************)
\* SocketAddrEncoder::start_encoding: unused, family, port, ip.
SocketAddrEncoder_bytes(addr) ==
    <<0, IF addr.fam = 4 THEN FAMILY_IPV4 ELSE FAMILY_IPV6>> \o U16be(addr.port) \o addr.ip

\* A variant that writes the code as one number instead of class and number.
ErrorCodeEncoder_bytes_plain(e) ==
    <<0, 0>> \o U16be(e.code) \o e.reason_phrase

\* ErrorCodeEncoder: ((code / 100) << 8 | code % 100) as a u32, then the phrase.
ErrorCodeEncoder_bytes(e) ==
    <<0, 0>> \o U16be(BitOr((e.code \div 100) * 256, e.code % 100)) \o e.reason_phrase

\* ChangeRequestEncoder: ((ip << 1 | port) << 1) as u32, computed on u8.
ChangeRequestEncoder_bytes(c) ==
    <<0, 0, 0, (BitOr(((IF c.ip THEN 1 ELSE 0) * 2) % 256, IF c.port THEN 1 ELSE 0) * 2) % 256>>

\* ResponsePortEncoder: the closure ignores the item and yields 0u16.
ResponsePortEncoder_bytes(port) == <<0, 0>> \o U16be(0)

RECURSIVE U16Seq_bytes(_)
U16Seq_bytes(us) ==
    IF us = <<>> THEN <<>> ELSE U16be(us[1]) \o U16Seq_bytes(Tail(us))

\* The item handed to the wrapped encoder by each impl_encode! closure.
ValueEncoder_bytes(a) ==
    CASE a.kind \in AddressKinds -> SocketAddrEncoder_bytes(a.v)
      [] a.kind \in TextKinds -> a.v
      [] a.kind \in BytesKinds -> a.v
      [] a.kind \in NullKinds -> <<>>
      [] a.kind \in U64Kinds -> a.v
      [] a.kind \in {"Fingerprint", "Lifetime", "Priority"} -> a.v
      [] a.kind = "MessageIntegrity" -> a.v.hmac_sha1
      [] a.kind = "ErrorCode" -> ErrorCodeEncoder_bytes(a.v)
      [] a.kind = "UnknownAttributes" -> U16Seq_bytes(a.v)
      [] a.kind = "ChannelNumber" -> U16be(a.v) \o <<0, 0>>
      [] a.kind = "RequestedTransport" -> <<a.v, 0, 0, 0>>
      [] a.kind = "EvenPort" -> <<IF a.v THEN 128 ELSE 0>>
      [] a.kind = "ChangeRequest" -> ChangeRequestEncoder_bytes(a.v)
      [] a.kind = "ResponsePort" -> ResponsePortEncoder_bytes(a.v)
      [] a.kind = "Raw" -> a.v.value

(***************************************************************************)
(* Value decoders.  A value decoder's state is [buf, eos]: the bytes it    *)
(* has taken so far and whether it has seen the end of its input.          *)
(***************************************************************************)
NewValueDecoder == [buf |-> <<>>, eos |-> FALSE]

\* Decoders of a fixed number of bytes (fixnum and [u8; 20] decoders).
FixedSize(kind) ==
    CASE kind \in U32Kinds -> 4
      [] kind \in U64Kinds -> 8
      [] kind = "EvenPort" -> 1
      [] kind = "MessageIntegrity" -> 20
      [] OTHER -> 0

FixedKinds == U32Kinds \cup U64Kinds \cup {"EvenPort", "MessageIntegrity"}

\* Bytes a SocketAddrDecoder wants in all, once the family is known.
\* A variant that takes every address to be an IPv4 one.
SocketAddrSize_v4_only(buf) == 8

SocketAddrSize(buf) == IF buf[2] = FAMILY_IPV4 THEN 8 ELSE 20

\* A decoder that fills `want` bytes: takes what it can and fails with
\* UnexpectedEos when the input ends before it is full.
FillStep(d, want, buf, eos) ==
    With(Min(want - Len(d.buf), Len(buf)), LAMBDA k :
        [d |-> [buf |-> d.buf \o Take(buf, k), eos |-> d.eos], used |-> k,
         err |-> IF Len(d.buf) + k < want /\ eos THEN "UnexpectedEos" ELSE ""])

\* SocketAddrDecoder::decode
SocketAddrDecoder_decode(d, buf, eos) ==
    With(IF Len(d.buf) < 2 THEN FillStep(d, 2, buf, eos)
         ELSE [d |-> d, used |-> 0, err |-> ""], LAMBDA s1 :
        IF s1.err # "" \/ Len(s1.d.buf) < 2 THEN s1
        ELSE IF Len(d.buf) < 2 /\ s1.d.buf[2] \notin {FAMILY_IPV4, FAMILY_IPV6}
             THEN [d |-> s1.d, used |-> s1.used, err |-> "InvalidInput"]
        ELSE With(FillStep(s1.d, SocketAddrSize(s1.d.buf), Drop(buf, s1.used), eos),
                  LAMBDA s2 : [d |-> s2.d, used |-> s1.used + s2.used, err |-> s2.err]))

\* Decoders that take every byte up to the end of the input
\* (RemainingBytesDecoder, Utf8Decoder).
RemainingStep(d, buf, eos) ==
    [d |-> [buf |-> d.buf \o buf, eos |-> eos], used |-> Len(buf), err |-> ""]

\* TupleDecoder<(U32beDecoder, Utf8Decoder)>::decode
ErrorCodeDecoder_decode(d, buf, eos) ==
    With(IF Len(d.buf) < 4 THEN FillStep(d, 4, buf, eos)
         ELSE [d |-> d, used |-> 0, err |-> ""], LAMBDA s1 :
        IF s1.err # "" \/ Len(s1.d.buf) < 4 THEN s1
        ELSE [d |-> [buf |-> s1.d.buf \o Drop(buf, s1.used), eos |-> eos],
              used |-> Len(buf), err |-> ""])

\* Collect<U16beDecoder>::decode
UnknownAttributesDecoder_decode(d, buf, eos) ==
    IF d.eos THEN [d |-> d, used |-> 0, err |-> ""]
    ELSE IF (Len(d.buf) + Len(buf)) % 2 = 1 /\ eos
         THEN [d |-> [buf |-> d.buf \o buf, eos |-> FALSE], used |-> Len(buf),
               err |-> "UnexpectedEos"]
         ELSE [d |-> [buf |-> d.buf \o buf, eos |-> eos], used |-> Len(buf), err |-> ""]

\* Decode::decode of the attribute-set decoder: dispatch on the variant.
ValueDecoder_decode(kind, d, buf, eos) ==
    CASE kind \in FixedKinds -> FillStep(d, FixedSize(kind), buf, eos)
      [] kind \in AddressKinds -> SocketAddrDecoder_decode(d, buf, eos)
      [] kind = "ErrorCode" -> ErrorCodeDecoder_decode(d, buf, eos)
      [] kind = "UnknownAttributes" -> UnknownAttributesDecoder_decode(d, buf, eos)
      [] kind \in NullKinds -> [d |-> d, used |-> 0, err |-> ""]
      [] kind = "None" -> [d |-> d, used |-> 0, err |-> "InconsistentState"]
      [] OTHER -> RemainingStep(d, buf, eos)

\* Decode::is_idle of the attribute-set decoder.
ValueDecoder_is_idle(kind, d) ==
    CASE kind \in FixedKinds -> Len(d.buf) = FixedSize(kind)
      [] kind \in AddressKinds -> Len(d.buf) >= 2 /\ Len(d.buf) = SocketAddrSize(d.buf)
      [] kind = "ErrorCode" -> Len(d.buf) >= 4 /\ d.eos
      [] kind \in NullKinds -> TRUE
      [] kind = "None" -> TRUE
      [] OTHER -> d.eos

RECURSIVE U16Seq_from(_)
U16Seq_from(bs) ==
    IF Len(bs) < 2 THEN <<>> ELSE <<U16from(bs)>> \o U16Seq_from(Drop(bs, 2))

\* ChannelNumber::MIN and ChannelNumber::MAX
ChannelNumber_MIN == 16384

ChannelNumber_MAX == 20479

\* A variant that refuses ChannelNumber::MAX.
ChannelNumber_new_exclusive(n) ==
    IF n >= ChannelNumber_MIN /\ n < ChannelNumber_MAX THEN Ok(n) ELSE Err("InvalidInput")

\* ChannelNumber::new
ChannelNumber_new(n) ==
    IF n >= ChannelNumber_MIN /\ n <= ChannelNumber_MAX THEN Ok(n) ELSE Err("InvalidInput")

\* ChannelNumber::wrapping_increment, on u16.
ChannelNumber_wrapping_increment(n) ==
    IF n = ChannelNumber_MAX THEN ChannelNumber_MIN ELSE (n + 1) % 65536

\* The closure of impl_decode!(ErrorCodeDecoder, ..): class and number checks.
ErrorCodeDecoder_item(buf) ==
    IF ~IsUtf8(Drop(buf, 4)) THEN Err("InvalidInput")
    ELSE IF ~(BitAnd(buf[3], 7) >= 3 /\ BitAnd(buf[3], 7) < 6) THEN Err("InvalidInput")
    ELSE IF ~(buf[4] < 100) THEN Err("InvalidInput")
    ELSE Ok([code |-> BitAnd(buf[3], 7) * 100 + buf[4], reason_phrase |-> Drop(buf, 4)])

\* A variant that measures every text in bytes.
Text_new_by_bytes(kind, bs) ==
    IF kind = "Username"
    THEN IF Len(bs) < 513 THEN Ok(bs) ELSE Err("InvalidInput")
    ELSE IF Len(bs) < 128 THEN Ok(bs) ELSE Err("InvalidInput")

\* Realm::new, Nonce::new, Software::new (chars().count() < 128) and
\* Username::new (len() < 513).
Text_new(kind, bs) ==
    IF kind = "Username"
    THEN IF Len(bs) < 513 THEN Ok(bs) ELSE Err("InvalidInput")
    ELSE IF CharsCount(bs) < 128 THEN Ok(bs) ELSE Err("InvalidInput")

\* SocketAddrDecoder::finish_decoding
SocketAddrDecoder_finish_decoding(d) ==
    IF Len(d.buf) < 2 \/ Len(d.buf) # SocketAddrSize(d.buf) THEN Err("IncompleteDecoding")
    ELSE Ok([fam |-> IF d.buf[2] = FAMILY_IPV4 THEN 4 ELSE 6,
             port |-> U16from(SubSeq(d.buf, 3, 4)),
             ip |-> Drop(d.buf, 4)])

\* Decode::finish_decoding of the attribute-set decoder: the wrapped decoder's
\* item mapped through the impl_decode! closure of the variant.
ValueDecoder_finish_decoding(kind, d) ==
    CASE kind = "None" -> Err("IncompleteDecoding")
      [] kind \in NullKinds -> Ok(<<>>)
      [] kind \in FixedKinds /\ Len(d.buf) # FixedSize(kind) -> Err("IncompleteDecoding")
      [] kind \in {"Fingerprint", "Lifetime", "Priority"} \cup U64Kinds -> Ok(d.buf)
      [] kind = "MessageIntegrity" ->
            Ok([hmac_sha1 |-> d.buf, preceding_message_bytes |-> <<>>])
      [] kind = "ChannelNumber" -> ChannelNumber_new(U16from(d.buf))
      [] kind = "RequestedTransport" -> Ok(d.buf[1])
      [] kind = "EvenPort" -> Ok(BitAnd(d.buf[1], 128) # 0)
      [] kind = "ChangeRequest" ->
            Ok([ip |-> BitAnd(d.buf[4], 2) # 0, port |-> BitAnd(d.buf[4], 1) # 0])
      [] kind = "ResponsePort" -> Ok(U16from(d.buf))
      [] kind \in AddressKinds -> SocketAddrDecoder_finish_decoding(d)
      [] kind \notin (FixedKinds \cup AddressKinds \cup NullKinds) /\ ~d.eos ->
            Err("IncompleteDecoding")
      [] kind \in TextKinds ->
            IF IsUtf8(d.buf) THEN Text_new(kind, d.buf) ELSE Err("InvalidInput")
      [] kind = "ErrorCode" ->
            IF Len(d.buf) < 4 THEN Err("IncompleteDecoding") ELSE ErrorCodeDecoder_item(d.buf)
      [] kind = "UnknownAttributes" ->
            IF Len(d.buf) % 2 = 1 THEN Err("IncompleteDecoding") ELSE Ok(U16Seq_from(d.buf))
      [] kind \in BytesKinds \cup {"Raw"} -> Ok(d.buf)

(***************************************************************************)
(* attribute.rs: Padding, LosslessAttribute and its encoder.               *)
(* A LosslessAttribute is [known, inner, padding]; inner is the attribute  *)
(* (a RawAttribute when known is FALSE) and padding is the Option<Padding>,*)
(* [some, bytes].                                                          *)
(***************************************************************************)
NoPadding == [some |-> FALSE, bytes |-> <<>>]

SomePadding(bs) == [some |-> TRUE, bytes |-> bs]

\* A variant that pads with the remainder itself.
Padding_new_unaligned(value_len) == Zeros(value_len % 4)

\* Padding::new
Padding_new(value_len) == Zeros((4 - (value_len % 4)) % 4)

\* LosslessAttribute::new
LosslessAttribute_new(inner) == [known |-> TRUE, inner |-> inner, padding |-> NoPadding]

\* The limit of track_assert!(value_len < 0x10000) and of
\* track_assert!(message_len < 0x10000).
LengthLimit == 65536

\* LosslessAttributeEncoder::start_encoding followed by encode until idle:
\* type, length, value, padding.
LosslessAttributeEncoder_bytes(item) ==
    With(ValueEncoder_bytes(item.inner), LAMBDA value :
        IF ~(Len(value) < LengthLimit) THEN Err("InvalidInput")
        ELSE Ok(U16be(get_type(item.inner)) \o U16be(Len(value)) \o value
                \o (IF item.padding.some THEN item.padding.bytes
                    ELSE Padding_new(Len(value)))))

\* PreEncode<Repeat<LosslessAttributeEncoder, _>>: every attribute is encoded
\* in turn into one buffer; the first failing attribute fails the whole.
RECURSIVE AttributesEncoder_bytes(_)
AttributesEncoder_bytes(items) ==
    IF items = <<>> THEN Ok(<<>>)
    ELSE With(LosslessAttributeEncoder_bytes(items[1]), LAMBDA first :
            IF ~first.ok THEN first
            ELSE With(AttributesEncoder_bytes(Tail(items)), LAMBDA rest :
                    IF ~rest.ok THEN rest ELSE Ok(first.val \o rest.val)))

(***************************************************************************)
(* message.rs: Message and MessageEncoder.                                 *)
(* A Message is [class, method, transaction_id, attributes].               *)
(***************************************************************************)
\* A variant that leaves every attribute as it is.
before_encode_untouched(a, message) == Ok(a)

\* Attribute::before_encode of each attribute type; `message` holds the
\* attributes that precede the attribute.
before_encode(a, message) ==
    IF a.kind \in XorKinds
    THEN Ok([kind |-> a.kind, v |-> socket_addr_xor(a.v, message.transaction_id)])
    ELSE Ok(a)

\* The before_encode pass of MessageEncoder::start_encoding: attribute i is
\* updated in place while the list is cut to its first i attributes.
RECURSIVE BeforeEncodePass(_, _)
BeforeEncodePass(item0, i) ==
    With(item0, LAMBDA item :
        IF i > Len(item.attributes) THEN Ok(item)
        ELSE With(before_encode(item.attributes[i].inner,
                                [item EXCEPT !.attributes = SubSeq(item.attributes, 1, i - 1)]),
                  LAMBDA r :
                    IF ~r.ok THEN r
                    ELSE BeforeEncodePass([item EXCEPT !.attributes[i].inner = r.val], i + 1)))

\* The encoder's fields hold the bytes each sub-encoder has still to write.
NewMessageEncoder ==
    [message_type |-> <<>>, message_len |-> <<>>, magic_cookie |-> <<>>,
     transaction_id |-> <<>>, attributes |-> <<>>]

\* start_encoding of a fixnum / bytes sub-encoder: refuses with EncoderFull
\* while it has bytes to write.
SubEncoder_start(s, field, bytes) ==
    IF s.err # "" THEN s
    ELSE IF s.enc[field] # <<>> THEN [enc |-> s.enc, err |-> "EncoderFull"]
    ELSE [enc |-> [s.enc EXCEPT ![field] = bytes], err |-> ""]

\* start_encoding of the attributes encoder: a sub-encoder as the others,
\* with the errors of the attributes it encodes.
AttributesEncoder_start(s, attrs) ==
    IF s.err # "" THEN s
    ELSE IF s.enc.attributes # <<>> THEN [enc |-> s.enc, err |-> "EncoderFull"]
    ELSE IF ~attrs.ok THEN [enc |-> s.enc, err |-> attrs.err]
    ELSE [enc |-> [s.enc EXCEPT !.attributes = attrs.val], err |-> ""]

\* A variant that counts the header into the length.
MessageLen_start_whole(s) ==
    IF s.err # "" THEN s
    ELSE IF ~(Len(s.enc.attributes) < LengthLimit) THEN [enc |-> s.enc, err |-> "InvalidInput"]
    ELSE SubEncoder_start(s, "message_len", U16be((Len(s.enc.attributes) + 20) % 65536))

\* A variant that lets a section of 0x10000 bytes pass.
MessageLen_start_inclusive(s) ==
    IF s.err # "" THEN s
    ELSE IF ~(Len(s.enc.attributes) <= LengthLimit) THEN [enc |-> s.enc, err |-> "InvalidInput"]
    ELSE SubEncoder_start(s, "message_len", U16be(Len(s.enc.attributes) % 65536))

\* The message_len check and start of MessageEncoder::start_encoding.
MessageLen_start(s) ==
    IF s.err # "" THEN s
    ELSE IF ~(Len(s.enc.attributes) < LengthLimit) THEN [enc |-> s.enc, err |-> "InvalidInput"]
    ELSE SubEncoder_start(s, "message_len", U16be(Len(s.enc.attributes)))

\* MessageEncoder::start_encoding: the before_encode pass, then message_type,
\* magic_cookie, transaction_id and attributes are started in this order and
\* message_len last; the first failure ends it.
MessageEncoder_start_encoding(enc, item0) ==
    With(BeforeEncodePass(item0, 1), LAMBDA hooked :
        IF ~hooked.ok THEN [enc |-> enc, err |-> hooked.err]
        ELSE With(SubEncoder_start([enc |-> enc, err |-> ""], "message_type",
                        U16be(Type_as_u16(hooked.val.class, hooked.val.method))), LAMBDA s1 :
             With(SubEncoder_start(s1, "magic_cookie", MAGIC_COOKIE), LAMBDA s2 :
             With(SubEncoder_start(s2, "transaction_id", hooked.val.transaction_id), LAMBDA s3 :
             With(AttributesEncoder_start(s3, AttributesEncoder_bytes(hooked.val.attributes)),
                  LAMBDA s4 : MessageLen_start(s4))))))

\* The bytes the encoder has still to write, in the order encode writes them.
MessageEncoder_pending(enc) ==
    enc.message_type \o enc.message_len \o enc.magic_cookie \o
    enc.transaction_id \o enc.attributes

\* MessageEncoder::encode into a buffer of n bytes: each sub-encoder in turn
\* writes what fits.
MessageEncoder_encode(enc, n) ==
    [enc |-> [message_type |-> Drop(enc.message_type, n),
              message_len |-> Drop(enc.message_len, Monus(n, Len(enc.message_type))),
              magic_cookie |->
                Drop(enc.magic_cookie,
                     Monus(n, Len(enc.message_type) + Len(enc.message_len))),
              transaction_id |->
                Drop(enc.transaction_id,
                     Monus(n, Len(enc.message_type) + Len(enc.message_len)
                              + Len(enc.magic_cookie))),
              attributes |->
                Drop(enc.attributes,
                     Monus(n, Len(enc.message_type) + Len(enc.message_len)
                              + Len(enc.magic_cookie) + Len(enc.transaction_id)))],
     written |-> Take(MessageEncoder_pending(enc), n)]

\* MessageEncoder::is_idle
MessageEncoder_is_idle(enc) == enc.transaction_id = <<>> /\ enc.attributes = <<>>

\* encode_into_bytes: start_encoding on a fresh encoder, then encode to the end.
encode_into_bytes(item) ==
    With(MessageEncoder_start_encoding(NewMessageEncoder, item), LAMBDA s :
        IF s.err # "" THEN Err(s.err) ELSE Ok(MessageEncoder_pending(s.enc)))

(***************************************************************************)
(* CRC-32/ISO-HDLC (crc::CRC_32_ISO_HDLC): reflected, polynomial           *)
(* 0xEDB88320, initial value and final XOR 0xFFFFFFFF.  A 32-bit register  *)
(* is the pair <<high 16 bits, low 16 bits>>.                              *)
(***************************************************************************)
Xor32(a, b) == <<BitXor(a[1], b[1]), BitXor(a[2], b[2])>>

Shr32(a, n) == <<a[1] \div Pow2(n), (a[2] \div Pow2(n)) + (a[1] % Pow2(n)) * Pow2(16 - n)>>

\* 0xEDB88320
Crc32Poly == <<60856, 33568>>

\* 0xFFFFFFFF
Crc32Ones == <<65535, 65535>>

\* n rounds of the bitwise checksum step on register c0.
RECURSIVE Crc32Rounds(_, _)
Crc32Rounds(c0, n) ==
    With(c0, LAMBDA c :
        IF n = 0 THEN c
        ELSE Crc32Rounds(IF c[2] % 2 = 1 THEN Xor32(Shr32(c, 1), Crc32Poly)
                         ELSE Shr32(c, 1),
                         n - 1))

Crc32Table == [i \in 0..255 |-> Crc32Rounds(<<0, i>>, 8)]

\* One table-driven step of the checksum.
Crc32Byte(c, b) == Xor32(Crc32Table[BitXor(c[2] % 256, b)], Shr32(c, 8))

\* The register after the bytes lo..hi of `bytes`, taken in order (the range
\* is halved rather than walked to keep the evaluation shallow).
RECURSIVE Crc32Update(_, _, _, _)
Crc32Update(c0, bytes, lo, hi) ==
    With(c0, LAMBDA c :
        IF lo > hi THEN c
        ELSE IF lo = hi THEN Crc32Byte(c, bytes[lo])
        ELSE Crc32Update(Crc32Update(c, bytes, lo, (lo + hi) \div 2), bytes,
                         ((lo + hi) \div 2) + 1, hi))

\* Crc::<u32>::new(&CRC_32_ISO_HDLC).checksum(bytes)
Crc32(bytes0) ==
    With(bytes0, LAMBDA bytes :
        Xor32(Crc32Update(Crc32Ones, bytes, 1, Len(bytes)), Crc32Ones))

\* 0x5354554e, the value FINGERPRINT XORs into the checksum.
FingerprintXor == <<21332, 21838>>

U32be(c) == U16be(c[1]) \o U16be(c[2])

(***************************************************************************)
(* rfc5389/attributes.rs: Fingerprint and MessageIntegrity.                *)
(***************************************************************************)
\* BigEndian::write_u16(&mut bytes[2..4], len)
WriteLength(bytes, len) == SubSeq(bytes, 1, 2) \o U16be(len) \o Drop(bytes, 4)

\* A variant that leaves the header length of the encoded message as it is.
Fingerprint_new_unadjusted(message) ==
    With(encode_into_bytes(message), LAMBDA r :
        IF ~r.ok THEN r ELSE Ok(U32be(Xor32(Crc32(r.val), FingerprintXor))))

\* final_len of Fingerprint::new, `bytes.len() as u16 - 20 + 8`, in wrapping
\* u16 arithmetic, for an encoded message of n bytes.
Fingerprint_final_len(n) == ((n % 65536) - 20 + 8) % 65536

\* Whether that u16 arithmetic overflows: a build with overflow checks
\* panics where a build without them wraps.
Fingerprint_final_len_overflows(n) == (n % 65536) < 20 \/ (n % 65536) - 20 + 8 > 65535

\* Fingerprint::new: the checksum of the encoded message with the header
\* length raised by the 8 bytes of the FINGERPRINT attribute (u16 arithmetic).
Fingerprint_new(message) ==
    With(encode_into_bytes(message), LAMBDA r :
        IF ~r.ok THEN r
        ELSE Ok(U32be(Xor32(Crc32(WriteLength(r.val, Fingerprint_final_len(Len(r.val)))),
                            FingerprintXor))))

\* MessageIntegrity::message_into_bytes: the encoded message with the header
\* length raised by the 24 bytes of the MESSAGE-INTEGRITY attribute.
message_into_bytes(message) ==
    With(encode_into_bytes(message), LAMBDA r :
        IF ~r.ok THEN r
        ELSE Ok(WriteLength(r.val, (Len(r.val) - 20 + 4 + 20) % 65536)))

(***************************************************************************)
(* The digests of the hmac, sha1 and md5 crates.  The crates are not part  *)
(* of this repository: each digest is stood for by a keyed checksum of the *)
(* same width, a function of every byte it is given and of their order.    *)
(***************************************************************************)
\* The checksum register after the bytes lo..hi of `bytes`.
RECURSIVE DigestUpdate(_, _, _, _)
DigestUpdate(s0, bytes, lo, hi) ==
    With(s0, LAMBDA s :
        IF lo > hi THEN s
        ELSE IF lo = hi THEN (s * 31 + bytes[lo] + 7) % 65521
        ELSE DigestUpdate(DigestUpdate(s, bytes, lo, (lo + hi) \div 2), bytes,
                          ((lo + hi) \div 2) + 1, hi))

\* n bytes drawn from the register after all of `bytes`.
Digest(seed, bytes0, n) ==
    With(bytes0, LAMBDA bytes :
        With(DigestUpdate(seed, bytes, 1, Len(bytes)), LAMBDA s :
            [i \in 1..n |-> ((s + 1) * (2 * i + 1) + (s \div 256) + i) % 256]))

\* md5::compute(bytes).0
md5_compute(bytes) == Digest(5, bytes, 16)

\* MessageIntegrity::generate_hmac_token
generate_hmac_token(key, message) ==
    Digest(1, <<Len(key) % 256>> \o key \o message, 20)

\* ErrorCode::new
ErrorCode_new(code, reason_phrase) ==
    IF code >= 300 /\ code < 600
    THEN Ok([code |-> code, reason_phrase |-> reason_phrase])
    ELSE Err("InvalidInput")

\* errors::Unauthorized.into(): ErrorCode::new(401, "Unauthorized")
Unauthorized ==
    ErrorCode_new(401, <<85, 110, 97, 117, 116, 104, 111, 114, 105, 122, 101, 100>>).val

\* format!("{}:{}:{}", username.name(), realm.text(), password)
LongTermKey(username, realm, password) ==
    md5_compute(username \o <<58>> \o realm \o <<58>> \o password)

\* MessageIntegrity::new_short_term_credential
new_short_term_credential(message, password) ==
    With(message_into_bytes(message), LAMBDA r :
        IF ~r.ok THEN r
        ELSE Ok([hmac_sha1 |-> generate_hmac_token(password, r.val),
                 preceding_message_bytes |-> r.val]))

\* MessageIntegrity::new_long_term_credential
new_long_term_credential(message, username, realm, password) ==
    With(message_into_bytes(message), LAMBDA r :
        IF ~r.ok THEN r
        ELSE Ok([hmac_sha1 |-> generate_hmac_token(LongTermKey(username, realm, password),
                                                   r.val),
                 preceding_message_bytes |-> r.val]))

\* MessageIntegrity::check_short_term_credential: Ok(()) or Err(ErrorCode).
check_short_term_credential(mi, password) ==
    IF mi.hmac_sha1 = generate_hmac_token(password, mi.preceding_message_bytes)
    THEN [ok |-> TRUE, code |-> 0]
    ELSE [ok |-> FALSE, code |-> Unauthorized.code]

\* MessageIntegrity::check_long_term_credential
check_long_term_credential(mi, username, realm, password) ==
    IF mi.hmac_sha1 = generate_hmac_token(LongTermKey(username, realm, password),
                                          mi.preceding_message_bytes)
    THEN [ok |-> TRUE, code |-> 0]
    ELSE [ok |-> FALSE, code |-> Unauthorized.code]

\* Attribute::after_decode of each attribute type; `message` holds the
\* attributes that precede the attribute.
after_decode(a, message) ==
    CASE a.kind \in XorKinds ->
            Ok([kind |-> a.kind, v |-> socket_addr_xor(a.v, message.transaction_id)])
      [] a.kind = "Fingerprint" ->
            With(Fingerprint_new(message), LAMBDA actual :
                IF ~actual.ok THEN actual
                ELSE IF actual.val # a.v THEN Err("InvalidInput")
                ELSE Ok(a))
      [] a.kind = "MessageIntegrity" ->
            With(message_into_bytes(message), LAMBDA r :
                IF ~r.ok THEN r
                ELSE Ok([kind |-> a.kind,
                         v |-> [hmac_sha1 |-> a.v.hmac_sha1,
                                preceding_message_bytes |-> r.val]]))
      [] OTHER -> Ok(a)

(***************************************************************************)
(* The combinators of the byte-codec library as the decoders use them.     *)
(* Length<D> is [kind, d, expected, remaining]: the wrapped value decoder  *)
(* (kind and state d) and the byte counts of the Length combinator.  It    *)
(* hands the wrapped decoder at most `remaining` bytes and tells it that   *)
(* the input ends where the counted bytes end.                             *)
(***************************************************************************)
\* Eos is the number of bytes that follow the buffer of a decode call, or a
\* negative number when that is unknown.
Eos_new(is_eos) == IF is_eos THEN 0 ELSE 0 - 1

Eos_is_reached(eos) == eos = 0

NewLength(kind) == [kind |-> kind, d |-> NewValueDecoder, expected |-> 0, remaining |-> 0]

\* Length::set_expected_bytes: refused while a value is half decoded.
Length_set_expected_bytes(l, n) ==
    IF l.remaining # l.expected THEN [l |-> l, err |-> "Other"]
    ELSE [l |-> [l EXCEPT !.expected = n, !.remaining = n], err |-> ""]

\* Length::is_idle
Length_is_idle(l) == ValueDecoder_is_idle(l.kind, l.d)

\* Length::decode.  The input may not end before the counted bytes do.
Length_decode(l, buf, eos) ==
    With(Min(Len(buf), l.remaining), LAMBDA limit :
    IF eos >= 0 /\ eos + (Len(buf) - limit) < l.remaining - limit
    THEN [l |-> l, used |-> 0, err |-> "UnexpectedEos"]
    ELSE
    With(ValueDecoder_decode(l.kind, l.d, Take(buf, limit), l.remaining - limit = 0), LAMBDA r :
    With([l EXCEPT !.d = r.d, !.remaining = l.remaining - r.used], LAMBDA nl :
        [l |-> nl, used |-> r.used,
         err |-> IF r.err # "" THEN r.err
                 ELSE IF Length_is_idle(nl) /\ nl.remaining # 0 THEN "InvalidInput"
                 ELSE ""])))

\* Length::finish_decoding: all counted bytes must have been taken; the
\* wrapped decoder is finished and, on success, left fresh.
Length_finish_decoding(l) ==
    IF l.remaining # 0 THEN [l |-> l, res |-> Err("IncompleteDecoding")]
    ELSE With(ValueDecoder_finish_decoding(l.kind, l.d), LAMBDA res :
            IF ~res.ok THEN [l |-> [l EXCEPT !.remaining = l.expected], res |-> res]
            ELSE [l |-> [l EXCEPT !.remaining = l.expected, !.d = NewValueDecoder,
                                  !.kind = IF l.kind = "Raw" THEN "Raw" ELSE "None"],
                  res |-> res])

(***************************************************************************)
(* attribute.rs: LosslessAttributeDecoder.  Its state:                     *)
(*   th            bytes taken so far by get_type and value_len            *)
(*   value_len     the peeked length, [some, n]                            *)
(*   is_known      which of the two value decoders is in use               *)
(*   known_value   Length<T::Decoder>                                      *)
(*   unknown_value Length<RawAttributeDecoder>, attr_type its [some, t]    *)
(*   padding       BytesDecoder<Padding>: [some, need, buf]                *)
(***************************************************************************)
None16 == [some |-> FALSE, n |-> 0]

Some16(n) == [some |-> TRUE, n |-> n]

NewLosslessAttributeDecoder ==
    [th |-> <<>>, value_len |-> None16, is_known |-> FALSE,
     known_value |-> NewLength("None"),
     unknown_value |-> NewLength("Raw"), attr_type |-> None16,
     padding |-> [some |-> FALSE, need |-> 0, buf |-> <<>>]]

\* A variant that compares only the low byte of the type.
KindOfType_low_byte(active, attr_type) ==
    IF \E k \in active : CODEPOINT(k) % 256 = attr_type % 256
    THEN CHOOSE k \in active : CODEPOINT(k) % 256 = attr_type % 256
    ELSE "None"

\* TryTaggedDecode::try_start_decoding of the attribute-set decoder: the
\* variant of the active set whose CODEPOINT is the tag, "None" if there is none.
KindOfType(active, attr_type) ==
    IF \E k \in active : CODEPOINT(k) = attr_type
    THEN CHOOSE k \in active : CODEPOINT(k) = attr_type
    ELSE "None"

\* The head of LosslessAttributeDecoder::decode: once type and length are
\* in, choose the value decoder, bound it to the length, size the padding.
LosslessAttributeDecoder_start(a, active) ==
    With(U16from(SubSeq(a.th, 1, 2)), LAMBDA attr_type :
    With(U16from(SubSeq(a.th, 3, 4)), LAMBDA value_len :
    With(KindOfType(active, attr_type), LAMBDA kind :
    With([a EXCEPT !.th = <<>>, !.value_len = Some16(value_len), !.is_known = kind # "None",
                   !.attr_type = IF kind # "None" THEN @ ELSE Some16(attr_type)], LAMBDA a1 :
    With(Length_set_expected_bytes(
            IF kind # "None"
            THEN [a.known_value EXCEPT !.kind = kind, !.d = NewValueDecoder]
            ELSE a.unknown_value, value_len), LAMBDA s :
    With(IF kind # "None" THEN [a1 EXCEPT !.known_value = s.l]
         ELSE [a1 EXCEPT !.unknown_value = s.l], LAMBDA a2 :
        IF s.err # "" THEN [a |-> a2, err |-> s.err]
        ELSE [a |-> [a2 EXCEPT !.padding = [some |-> TRUE,
                                            need |-> Len(Padding_new(value_len)),
                                            buf |-> <<>>]],
              err |-> ""]))))))

\* BytesDecoder<Padding>::is_idle
Padding_is_idle(p) == ~p.some \/ Len(p.buf) = p.need

\* LosslessAttributeDecoder::is_idle
LosslessAttributeDecoder_is_idle(a) ==
    /\ a.value_len.some
    /\ IF a.is_known THEN Length_is_idle(a.known_value) ELSE Length_is_idle(a.unknown_value)
    /\ Padding_is_idle(a.padding)

\* The three parts of LosslessAttributeDecoder::decode.  Each takes what the
\* part before it left: the decoder a, the bytes used so far, the error,
\* and whether decode goes on (go) or has returned.
\* Type and length, then the start of the value decoder.
TypeLenPart(a, buf, eos, active) ==
    IF a.value_len.some THEN [a |-> a, used |-> 0, err |-> "", go |-> TRUE]
    ELSE With(FillStep([buf |-> a.th, eos |-> FALSE], 4, buf, eos), LAMBDA h :
            IF h.err # "" \/ Len(h.d.buf) < 4
            THEN [a |-> [a EXCEPT !.th = h.d.buf], used |-> h.used, err |-> h.err,
                  go |-> FALSE]
            ELSE With(LosslessAttributeDecoder_start([a EXCEPT !.th = h.d.buf], active),
                      LAMBDA st : [a |-> st.a, used |-> h.used, err |-> st.err,
                                   go |-> st.err = ""]))

\* The value, by the known or the unknown value decoder.
ValuePart(s, buf, eos) ==
    IF ~s.go THEN s
    ELSE With(IF s.a.is_known THEN s.a.known_value ELSE s.a.unknown_value, LAMBDA vl :
         With(IF Length_is_idle(vl) THEN [l |-> vl, used |-> 0, err |-> ""]
              ELSE Length_decode(vl, Drop(buf, s.used), eos), LAMBDA v :
            [a |-> IF s.a.is_known THEN [s.a EXCEPT !.known_value = v.l]
                   ELSE [s.a EXCEPT !.unknown_value = v.l],
             used |-> s.used + v.used, err |-> v.err,
             go |-> v.err = "" /\ Length_is_idle(v.l)]))

\* The padding.
PaddingPart(s, buf, eos) ==
    IF ~s.go \/ Padding_is_idle(s.a.padding) THEN s
    ELSE With(FillStep([buf |-> s.a.padding.buf, eos |-> FALSE], s.a.padding.need,
                       Drop(buf, s.used), eos), LAMBDA p :
            [a |-> [s.a EXCEPT !.padding.buf = p.d.buf], used |-> s.used + p.used,
             err |-> p.err, go |-> TRUE])

\* LosslessAttributeDecoder::decode
LosslessAttributeDecoder_decode(a, buf, eos, active) ==
    With(TypeLenPart(a, buf, Eos_is_reached(eos), active), LAMBDA s1 :
    With(ValuePart(s1, buf, eos), LAMBDA s2 :
    With(PaddingPart(s2, buf, Eos_is_reached(eos)), LAMBDA s3 :
        [a |-> s3.a, used |-> s3.used, err |-> s3.err])))

\* LosslessAttributeDecoder::finish_decoding: value_len, padding and the
\* value decoder are finished in this order; the first failure ends it.
LosslessAttributeDecoder_finish_decoding(a) ==
    IF ~a.value_len.some THEN [a |-> a, res |-> Err("IncompleteDecoding")]
    ELSE IF ~a.padding.some \/ Len(a.padding.buf) # a.padding.need
    THEN [a |-> [a EXCEPT !.value_len = None16], res |-> Err("IncompleteDecoding")]
    ELSE
    With([a EXCEPT !.value_len = None16,
                   !.padding = [some |-> FALSE, need |-> 0, buf |-> <<>>]], LAMBDA a2 :
        IF a.is_known
        THEN With(Length_finish_decoding(a2.known_value), LAMBDA f :
                [a |-> [a2 EXCEPT !.known_value = f.l],
                 res |-> IF ~f.res.ok THEN f.res
                         ELSE Ok([known |-> TRUE,
                                  inner |-> [kind |-> a.known_value.kind, v |-> f.res.val],
                                  padding |-> SomePadding(a.padding.buf)])])
        ELSE IF a2.unknown_value.remaining # 0
             THEN [a |-> a2, res |-> Err("IncompleteDecoding")]
        ELSE IF ~a2.attr_type.some
             THEN [a |-> [a2 EXCEPT !.unknown_value.remaining = a2.unknown_value.expected],
                   res |-> Err("InconsistentState")]
        ELSE With(Length_finish_decoding(a2.unknown_value), LAMBDA f :
                [a |-> [a2 EXCEPT !.unknown_value = f.l, !.attr_type = None16],
                 res |-> IF ~f.res.ok THEN f.res
                         ELSE Ok([known |-> FALSE,
                                  inner |-> [kind |-> "Raw",
                                             v |-> [attr_type |-> a2.attr_type.n,
                                                    value |-> f.res.val]],
                                  padding |-> SomePadding(a.padding.buf)])]))

(***************************************************************************)
(* Collect<LosslessAttributeDecoder>: [items, eos, inner].  It decodes     *)
(* attribute after attribute out of the bytes it is given and is idle once *)
(* it has been told that its input has ended.                              *)
(***************************************************************************)
NewCollect == [items |-> <<>>, eos |-> FALSE, inner |-> NewLosslessAttributeDecoder]

RECURSIVE Collect_loop(_, _, _, _, _)
Collect_loop(c0, buf0, eos, active, offset) ==
    With(c0, LAMBDA c :
    With(buf0, LAMBDA buf :
        IF buf = <<>>
        THEN [c |-> [c EXCEPT !.eos = Eos_is_reached(eos)], used |-> offset, err |-> ""]
        ELSE With(LosslessAttributeDecoder_decode(c.inner, buf, eos, active), LAMBDA r :
            IF r.err # "" \/ ~LosslessAttributeDecoder_is_idle(r.a)
            THEN [c |-> [c EXCEPT !.inner = r.a], used |-> offset + r.used, err |-> r.err]
            ELSE With(LosslessAttributeDecoder_finish_decoding(r.a), LAMBDA f :
                IF ~f.res.ok
                THEN [c |-> [c EXCEPT !.inner = f.a], used |-> offset + r.used,
                      err |-> f.res.err]
                ELSE Collect_loop([c EXCEPT !.inner = f.a,
                                            !.items = Append(c.items, f.res.val)],
                                  Drop(buf, r.used), eos, active, offset + r.used)))))

\* A variant that starts every call with a fresh attribute decoder.
Collect_decode_restarting(c, buf, eos, active) ==
    IF c.eos THEN [c |-> c, used |-> 0, err |-> ""]
    ELSE Collect_loop([c EXCEPT !.inner = NewLosslessAttributeDecoder], buf, eos, active, 0)

\* Collect::decode
Collect_decode(c, buf, eos, active) ==
    IF c.eos THEN [c |-> c, used |-> 0, err |-> ""]
    ELSE Collect_loop(c, buf, eos, active, 0)

\* Collect::finish_decoding
Collect_finish_decoding(c) ==
    IF ~c.eos THEN [c |-> c, res |-> Err("IncompleteDecoding")]
    ELSE [c |-> [c EXCEPT !.eos = FALSE, !.items = <<>>], res |-> Ok(c.items)]

(***************************************************************************)
(* message.rs: AttributesDecoder, [inner, last_error, is_eos]; an empty    *)
(* last_error is None.                                                     *)
(***************************************************************************)
NewAttributesDecoder == [inner |-> NewCollect, last_error |-> "", is_eos |-> FALSE]

\* A variant that, once an error is recorded, takes one byte per call.
AttributesDecoder_decode_unskipped(ad, buf, eos, active) ==
    IF ad.last_error = ""
    THEN With(Collect_decode(ad.inner, buf, eos, active), LAMBDA r :
            IF r.err # ""
            THEN [ad |-> [inner |-> r.c, last_error |-> r.err, is_eos |-> Eos_is_reached(eos)],
                  used |-> Len(buf)]
            ELSE [ad |-> [ad EXCEPT !.inner = r.c], used |-> r.used])
    ELSE [ad |-> [ad EXCEPT !.is_eos = Eos_is_reached(eos)], used |-> Min(1, Len(buf))]

\* AttributesDecoder::decode
AttributesDecoder_decode(ad, buf, eos, active) ==
    IF ad.last_error = ""
    THEN With(Collect_decode(ad.inner, buf, eos, active), LAMBDA r :
            IF r.err # ""
            THEN [ad |-> [inner |-> r.c, last_error |-> r.err, is_eos |-> Eos_is_reached(eos)],
                  used |-> Len(buf)]
            ELSE [ad |-> [ad EXCEPT !.inner = r.c], used |-> r.used])
    ELSE [ad |-> [ad EXCEPT !.is_eos = Eos_is_reached(eos)], used |-> Len(buf)]

\* AttributesDecoder::is_idle
AttributesDecoder_is_idle(ad) ==
    IF ad.last_error = "" THEN ad.inner.eos ELSE ad.is_eos

\* AttributesDecoder::finish_decoding
AttributesDecoder_finish_decoding(ad) ==
    IF ad.last_error # ""
    THEN [ad |-> [ad EXCEPT !.is_eos = FALSE, !.last_error = ""], res |-> Err(ad.last_error)]
    ELSE With(Collect_finish_decoding(ad.inner), LAMBDA f :
            [ad |-> [ad EXCEPT !.is_eos = FALSE, !.inner = f.c], res |-> f.res])

(***************************************************************************)
(* message.rs: MessageHeaderDecoder inside Peekable.  The four fields hold *)
(* the bytes each sub-decoder has taken; item is the peeked header,        *)
(* [some, class, method, message_len, transaction_id].                     *)
(***************************************************************************)
NoHeader == [some |-> FALSE, class |-> 0, method |-> 0, message_len |-> 0,
             transaction_id |-> <<>>]

NewHeaderDecoder ==
    [message_type |-> <<>>, message_len |-> <<>>, magic_cookie |-> <<>>,
     transaction_id |-> <<>>, item |-> NoHeader]

\* MessageHeaderDecoder::decode: the four sub-decoders fill in turn.
MessageHeaderDecoder_decode(h, buf, eos) ==
    With(Min(2 - Len(h.message_type), Len(buf)), LAMBDA k1 :
    With(IF Len(h.message_type) + k1 < 2 THEN 0
         ELSE Min(2 - Len(h.message_len), Len(buf) - k1), LAMBDA k2 :
    With(IF Len(h.message_len) + k2 < 2 THEN 0
         ELSE Min(4 - Len(h.magic_cookie), Len(buf) - k1 - k2), LAMBDA k3 :
    With(IF Len(h.magic_cookie) + k3 < 4 THEN 0
         ELSE Min(12 - Len(h.transaction_id), Len(buf) - k1 - k2 - k3), LAMBDA k4 :
        [h |-> [h EXCEPT !.message_type = @ \o SubSeq(buf, 1, k1),
                         !.message_len = @ \o SubSeq(buf, k1 + 1, k1 + k2),
                         !.magic_cookie = @ \o SubSeq(buf, k1 + k2 + 1, k1 + k2 + k3),
                         !.transaction_id = @ \o SubSeq(buf, k1 + k2 + k3 + 1,
                                                        k1 + k2 + k3 + k4)],
         used |-> k1 + k2 + k3 + k4,
         err |-> IF Len(h.transaction_id) + k4 < 12 /\ eos THEN "UnexpectedEos" ELSE ""]))))

\* MessageHeaderDecoder::is_idle
MessageHeaderDecoder_is_idle(h) == Len(h.transaction_id) = 12

\* A variant that accepts every cookie.
check_magic_cookie_lenient(magic_cookie) == ""

\* MessageHeaderDecoder::check_magic_cookie
check_magic_cookie(magic_cookie) ==
    IF magic_cookie = MAGIC_COOKIE THEN "" ELSE "InvalidInput"

\* MessageHeaderDecoder::finish_decoding, called by Peekable::decode as soon
\* as the header decoder is idle.
MessageHeaderDecoder_finish_decoding(h) ==
    With(Type_from_u16(U16from(h.message_type)), LAMBDA ty :
        IF ~ty.ok THEN [h |-> [h EXCEPT !.message_type = <<>>], err |-> ty.err]
        ELSE IF check_magic_cookie(h.magic_cookie) # ""
             THEN [h |-> [h EXCEPT !.message_type = <<>>, !.message_len = <<>>,
                                   !.magic_cookie = <<>>, !.transaction_id = <<>>],
                   err |-> check_magic_cookie(h.magic_cookie)]
        ELSE [h |-> [h EXCEPT !.message_type = <<>>, !.message_len = <<>>,
                              !.magic_cookie = <<>>, !.transaction_id = <<>>,
                              !.item = [some |-> TRUE, class |-> ty.class,
                                        method |-> ty.method,
                                        message_len |-> U16from(h.message_len),
                                        transaction_id |-> h.transaction_id]],
              err |-> ""])

(***************************************************************************)
(* message.rs: MessageDecoder, [header, attributes]; attributes is the     *)
(* Length<AttributesDecoder>, [expected, remaining, inner].                *)
(***************************************************************************)
NewMessageDecoder ==
    [header |-> NewHeaderDecoder,
     attributes |-> [expected |-> 0, remaining |-> 0, inner |-> NewAttributesDecoder]]

\* Length<AttributesDecoder>::decode
AttributesLength_decode(l, buf, eos, active) ==
    With(Min(Len(buf), l.remaining), LAMBDA limit :
    IF eos >= 0 /\ eos + (Len(buf) - limit) < l.remaining - limit
    THEN [l |-> l, used |-> 0, err |-> "UnexpectedEos"]
    ELSE
    With(AttributesDecoder_decode(l.inner, Take(buf, limit), l.remaining - limit, active),
         LAMBDA r :
        [l |-> [l EXCEPT !.inner = r.ad, !.remaining = l.remaining - r.used],
         used |-> r.used,
         err |-> IF AttributesDecoder_is_idle(r.ad) /\ l.remaining - r.used # 0
                 THEN "InvalidInput" ELSE ""]))

\* MessageDecoder::is_idle
MessageDecoder_is_idle(dec) ==
    dec.header.item.some /\ AttributesDecoder_is_idle(dec.attributes.inner)

\* The head of MessageDecoder::decode: while no header has been peeked, the
\* header decoder takes bytes, is finished as soon as it is idle, and the
\* attribute section is bound to the declared length.  `go` tells whether
\* decode goes on to the attributes.
HeaderPart(dec, buf, eos) ==
    IF dec.header.item.some THEN [dec |-> dec, used |-> 0, err |-> "", go |-> TRUE]
    ELSE With(MessageHeaderDecoder_decode(dec.header, buf, eos), LAMBDA h :
            IF h.err # "" \/ ~MessageHeaderDecoder_is_idle(h.h)
            THEN [dec |-> [dec EXCEPT !.header = h.h], used |-> h.used, err |-> h.err,
                  go |-> FALSE]
            ELSE With(MessageHeaderDecoder_finish_decoding(h.h), LAMBDA f :
                IF f.err # ""
                THEN [dec |-> [dec EXCEPT !.header = f.h], used |-> h.used, err |-> f.err,
                      go |-> FALSE]
                ELSE IF dec.attributes.remaining # dec.attributes.expected
                THEN [dec |-> [dec EXCEPT !.header = f.h], used |-> h.used, err |-> "Other",
                      go |-> FALSE]
                ELSE [dec |-> [dec EXCEPT !.header = f.h,
                                          !.attributes.expected = f.h.item.message_len,
                                          !.attributes.remaining = f.h.item.message_len],
                      used |-> h.used, err |-> "", go |-> TRUE]))

\* MessageDecoder::decode
MessageDecoder_decode(dec, buf, eos, active) ==
    With(HeaderPart(dec, buf, eos), LAMBDA s :
        IF ~s.go \/ AttributesDecoder_is_idle(s.dec.attributes.inner)
        THEN [dec |-> s.dec, used |-> s.used, err |-> s.err]
        ELSE With(AttributesLength_decode(s.dec.attributes, Drop(buf, s.used),
                                          Eos_new(eos), active),
                  LAMBDA a :
                [dec |-> [s.dec EXCEPT !.attributes = a.l], used |-> s.used + a.used,
                 err |-> a.err]))

\* Attribute i's after_decode hook runs against the message cut to its
\* first i attributes; the first hook error ends the pass.
RECURSIVE AfterDecodePass(_, _)
AfterDecodePass(message0, i) ==
    With(message0, LAMBDA message :
        IF i > Len(message.attributes) THEN Ok(message)
        ELSE With(after_decode(message.attributes[i].inner,
                               [message EXCEPT
                                  !.attributes = SubSeq(message.attributes, 1, i - 1)]),
                  LAMBDA r :
                    IF ~r.ok THEN r
                    ELSE AfterDecodePass([message EXCEPT !.attributes[i].inner = r.val],
                                         i + 1)))

\* MessageDecoder::finish_decoding_with_header
finish_decoding_with_header(l, method, class, transaction_id) ==
    IF l.remaining # 0 THEN [l |-> l, res |-> Err("IncompleteDecoding")]
    ELSE With(AttributesDecoder_finish_decoding(l.inner), LAMBDA f :
            [l |-> [l EXCEPT !.inner = f.ad, !.remaining = l.expected],
             res |-> IF ~f.res.ok THEN f.res
                     ELSE AfterDecodePass([class |-> class, method |-> method,
                                           transaction_id |-> transaction_id,
                                           attributes |-> f.res.val], 1)])

\* What finish_decoding returns: Ok(Ok(Message)), Ok(Err(BrokenMessage)) or
\* Err(error).
DecodedOk(message) ==
    [kind |-> "Message", class |-> message.class, method |-> message.method,
     transaction_id |-> message.transaction_id, attributes |-> message.attributes,
     error |-> ""]

\* A variant that fails the decode itself.
DecodedBroken_outer(method, class, transaction_id, error) ==
    [kind |-> "Err", class |-> 0, method |-> 0, transaction_id |-> <<>>,
     attributes |-> <<>>, error |-> error]

DecodedBroken(method, class, transaction_id, error) ==
    [kind |-> "BrokenMessage", class |-> class, method |-> method,
     transaction_id |-> transaction_id, attributes |-> <<>>, error |-> error]

DecodeErr(error) ==
    [kind |-> "Err", class |-> 0, method |-> 0, transaction_id |-> <<>>,
     attributes |-> <<>>, error |-> error]

\* Peekable<MessageHeaderDecoder>::finish_decoding without a peeked header:
\* the header decoder is finished as it stands.
HeaderFinishError(h) ==
    IF Len(h.message_type) < 2 THEN "IncompleteDecoding"
    ELSE IF ~Type_from_u16(U16from(h.message_type)).ok THEN "InvalidInput"
    ELSE "IncompleteDecoding"

\* MessageDecoder::finish_decoding
MessageDecoder_finish_decoding(dec) ==
    IF ~dec.header.item.some
    THEN [dec |-> [dec EXCEPT !.header.message_type =
                        IF Len(@) < 2 THEN @ ELSE <<>>],
          res |-> DecodeErr(HeaderFinishError(dec.header))]
    ELSE With(finish_decoding_with_header(dec.attributes, dec.header.item.method,
                                          dec.header.item.class,
                                          dec.header.item.transaction_id), LAMBDA w :
            [dec |-> [header |-> [dec.header EXCEPT !.item = NoHeader], attributes |-> w.l],
             res |-> IF ~w.res.ok
                     THEN DecodedBroken(dec.header.item.method, dec.header.item.class,
                                        dec.header.item.transaction_id, w.res.err)
                     ELSE DecodedOk(w.res.val)])

(***************************************************************************)
(* Sample data: the messages a caller builds and the byte streams a peer   *)
(* sends.  Every size is a named bound.                                    *)
(***************************************************************************)
\* Longest attribute list of the sampled messages and streams.
MaxAttrs == 2

\* Longest value of a sampled attribute of unknown type.
MaxUnknownLen == 5

\* Most bytes that follow a message in a sampled stream.
MaxTrailing == 2

\* Sequences over S of length 0..n.
RECURSIVE SeqsUpTo(_, _)
SeqsUpTo(S, n) ==
    IF n = 0 THEN {<<>>}
    ELSE With(SeqsUpTo(S, n - 1), LAMBDA shorter :
            shorter \cup {Append(q, x) : q \in {r \in shorter : Len(r) = n - 1}, x \in S})

\* Transaction ids: the one of the crate's tests ([3; 12]) and the one of the
\* RFC 5769 test vectors.
Tid3 == [i \in 1..12 |-> 3]

Tid5769 == <<183, 231, 167, 1, 188, 52, 214, 134, 250, 135, 223, 174>>

TidSamples == {Tid3, Tid5769}

Addr4 == [fam |-> 4, ip |-> <<192, 0, 2, 1>>, port |-> 32853]

Addr6 == [fam |-> 6, port |-> 32853,
          ip |-> <<32, 1, 13, 184, 18, 52, 86, 120, 0, 17, 34, 51, 68, 85, 102, 119>>]

AddrSamples == {Addr4, Addr6, [fam |-> 4, ip |-> <<127, 0, 0, 1>>, port |-> 80]}

Attr(kind, v) == [kind |-> kind, v |-> v]

\* The members of a set in some order.
RECURSIVE SeqOf(_)
SeqOf(S) ==
    IF S = {} THEN <<>>
    ELSE With(CHOOSE y \in S : TRUE, LAMBDA x : <<x>> \o SeqOf(S \ {x}))

\* Values of every attribute type of the catalog, as their constructors
\* accept them.
CatalogSamples ==
    SeqOf({Attr(k, a) : k \in AddressKinds, a \in AddrSamples})
    \o SeqOf({Attr(k, t) : k \in TextKinds, t \in {<<>>, <<102, 111, 111>>, <<116, 101, 115, 116>>,
                                                  <<226, 130, 172, 49>>}})
    \o SeqOf({Attr("ErrorCode", [code |-> c, reason_phrase |-> r]) :
                c \in {300, 401, 420, 599}, r \in {<<>>, <<78, 111>>}})
    \o SeqOf({Attr("UnknownAttributes", u) : u \in {<<>>, <<36>>, <<36, 32809>>}})
    \o SeqOf({Attr("ChannelNumber", n) : n \in {ChannelNumber_MIN, 16385, ChannelNumber_MAX}})
    \o SeqOf({Attr(k, w) : k \in {"Lifetime", "Priority"},
                           w \in {<<0, 0, 0, 0>>, <<0, 0, 14, 16>>, <<255, 255, 255, 255>>}})
    \o SeqOf({Attr(k, w) : k \in U64Kinds,
                           w \in {<<0, 0, 0, 0, 0, 0, 0, 0>>, <<147, 47, 249, 177, 81, 38, 59, 54>>}})
    \o SeqOf({Attr(k, d) : k \in BytesKinds, d \in {<<>>, <<1>>, <<1, 2, 3, 4, 5>>}})
    \o SeqOf({Attr("EvenPort", b) : b \in BOOLEAN})
    \o SeqOf({Attr("RequestedTransport", p) : p \in {0, 17, 255}})
    \o SeqOf({Attr(k, <<>>) : k \in NullKinds})
    \o SeqOf({Attr("ChangeRequest", [ip |-> i, port |-> q]) : i \in BOOLEAN, q \in BOOLEAN})
    \o SeqOf({Attr("ResponsePort", p) : p \in {0, 80, 32853}})

\* The attribute set a sampled attribute is decoded with: the enum of its
\* RFC module, or the attribute type alone.
ActiveFor(kind) ==
    IF kind \in Rfc5766Kinds THEN Rfc5766Kinds
    ELSE IF kind \in Rfc5245Kinds THEN Rfc5245Kinds
    ELSE IF kind \in Rfc5780Kinds THEN Rfc5780Kinds
    ELSE {kind}

\* Message::new
Message_new(class, method, transaction_id) ==
    [class |-> class, method |-> method, transaction_id |-> transaction_id,
     attributes |-> <<>>]

\* Message::add_attribute
add_attribute(message, a) ==
    [message EXCEPT !.attributes = Append(@, LosslessAttribute_new(a))]

RECURSIVE add_attributes(_, _)
add_attributes(message, as) ==
    IF as = <<>> THEN message
    ELSE add_attributes(add_attribute(message, as[1]), Tail(as))

\* Message::unknown_attributes: the unknown attributes, in order.
RECURSIVE unknown_attributes(_)
unknown_attributes(message) ==
    IF message.attributes = <<>> THEN <<>>
    ELSE (IF message.attributes[1].known THEN <<>> ELSE <<message.attributes[1].inner>>)
         \o unknown_attributes([message EXCEPT !.attributes = Tail(@)])

\* Method codepoints of the sampled messages: Binding, ChannelBind, the
\* first method above 0xF, and the largest one.
MethodSamples == {1, 9, 16, 4095}

\* Attribute lists of the sampled messages with more than one attribute.
ListAttrs ==
    <<Attr("Software", <<102, 111, 111>>), Attr("XorMappedAddress", Addr4),
      Attr("Username", <<101, 118>>)>>

ListSamples ==
    With(SeqOf(SeqsUpTo(1..Len(ListAttrs), MaxAttrs)), LAMBDA picks :
        [i \in 1..Len(picks) |-> [j \in 1..Len(picks[i]) |-> ListAttrs[picks[i][j]]]])

\* A message with a FINGERPRINT of itself added, as a caller makes it.
WithFingerprint(message) ==
    With(Fingerprint_new(message), LAMBDA f :
        IF f.ok THEN add_attribute(message, Attr("Fingerprint", f.val)) ELSE message)

\* Passwords, a user name and a realm of the sampled credentials.
PasswordSamples == {<<112, 97, 115, 115>>, <<119, 111, 114, 100>>}

UserSample == <<101, 118>>

RealmSample == <<114>>

\* A message with a MESSAGE-INTEGRITY of itself added, as a caller makes it
\* with a short-term or a long-term credential.
WithShortTerm(message, password) ==
    With(new_short_term_credential(message, password), LAMBDA f :
        IF f.ok THEN add_attribute(message, Attr("MessageIntegrity", f.val)) ELSE message)

WithLongTerm(message, username, realm, password) ==
    With(new_long_term_credential(message, username, realm, password), LAMBDA f :
        IF f.ok THEN add_attribute(message, Attr("MessageIntegrity", f.val)) ELSE message)

\* The messages handed to the encoder, each with the attribute set in use.
MessageScenarios ==
    [i \in 1..Len(CatalogSamples) |->
        [active |-> ActiveFor(CatalogSamples[i].kind),
         message |-> add_attribute(Message_new(0, 1, Tid3), CatalogSamples[i])]]
    \o SeqOf({[active |-> Rfc5389Kinds, message |-> Message_new(c, m, Tid5769)] :
                c \in MessageClasses, m \in MethodSamples})
    \o [i \in 1..Len(ListSamples) |->
        [active |-> Rfc5389Kinds,
         message |-> add_attributes(Message_new(2, 1, Tid5769), ListSamples[i])]]
    \o [i \in 1..Len(ListSamples) |->
        [active |-> Rfc5389Kinds,
         message |-> WithFingerprint(add_attributes(Message_new(0, 3, Tid3), ListSamples[i]))]]
    \o <<[active |-> Rfc5389Kinds,
          message |-> WithShortTerm(add_attribute(Message_new(0, 1, Tid3), ListAttrs[1]),
                                    <<112, 97, 115, 115>>)],
         [active |-> Rfc5389Kinds,
          message |-> WithLongTerm(add_attribute(Message_new(2, 16, Tid3), ListAttrs[2]),
                                   UserSample, RealmSample, <<112, 97, 115, 115>>)]>>

(***************************************************************************)
(* Byte streams as a peer sends them.                                      *)
(***************************************************************************)
\* One attribute on the wire: type, length of the value, value, padding.
Tlv(type, value, padding) == U16be(type) \o U16be(Len(value)) \o value \o padding

\* A message on the wire whose header declares the length it is given.
StreamOf(word, len, cookie, transaction_id, body) ==
    U16be(word) \o U16be(len) \o cookie \o transaction_id \o body

\* A message on the wire whose header declares the length of its body.
WellFormed(word, transaction_id, body) ==
    StreamOf(word, Len(body), MAGIC_COOKIE, transaction_id, body)

\* Value bytes and padding bytes of the sampled attributes: a byte pattern,
\* and zero, space and mixed padding.
PatternBytes(n) == [i \in 1..n |-> (17 * i + 150) % 256]

PadLen(n) == (4 - (n % 4)) % 4

PaddingSamples(n) ==
    {Zeros(PadLen(n)), [i \in 1..PadLen(n) |-> 32], [i \in 1..PadLen(n) |-> 256 - i]}

\* Attribute types outside every sampled attribute set: two
\* comprehension-required ones and two comprehension-optional ones.
UnknownTypes == {48, 32767, 49153, 65535}

UnknownTlvSamples ==
    UNION {{Tlv(t, PatternBytes(n), pad) : t \in UnknownTypes, pad \in PaddingSamples(n)} :
            n \in 0..MaxUnknownLen}

RECURSIVE Concat(_)
Concat(seqs) == IF seqs = <<>> THEN <<>> ELSE seqs[1] \o Concat(Tail(seqs))

\* Header type words of the sampled streams: Binding request, Binding
\* success response, Binding error response, and words whose method is
\* above 0xF.
WordSamples == {1, 257, 273, 32, 512, 16383}

\* Bodies of more than one unknown attribute.
UnknownListSamples ==
    {Concat(q) : q \in SeqsUpTo({Tlv(48, <<1, 2, 3>>, <<32>>), Tlv(49153, <<>>, <<>>),
                                 Tlv(65535, <<7, 8>>, <<9, 10>>)}, MaxAttrs)}

\* Known attributes as a peer may send them: with padding that is not zero
\* and with reserved bits set.
KnownAttrs ==
    <<Attr("Software", <<102, 111, 111>>), Attr("Username", <<101, 118>>),
      Attr("Data", <<1, 2, 3, 4, 5>>), Attr("XorMappedAddress", Addr4),
      Attr("MappedAddress", Addr6), Attr("Lifetime", <<0, 0, 14, 16>>),
      Attr("ErrorCode", [code |-> 401, reason_phrase |-> <<78, 111>>]),
      Attr("UnknownAttributes", <<36>>), Attr("ChannelNumber", 16385),
      Attr("EvenPort", TRUE), Attr("DontFragment", <<>>)>>

KnownTlvSamples ==
    UNION {{[active |-> ActiveFor(KnownAttrs[i].kind),
             body |-> Tlv(CODEPOINT(KnownAttrs[i].kind), ValueEncoder_bytes(KnownAttrs[i]), pad)] :
                pad \in PaddingSamples(Len(ValueEncoder_bytes(KnownAttrs[i])))} :
            i \in 1..Len(KnownAttrs)}
    \cup {[active |-> Rfc5780Kinds, body |-> Tlv(3, v, <<>>)] :
            v \in {<<0, 0, 0, 6>>, <<0, 0, 0, 2>>, <<255, 255, 255, 255>>}}
    \cup {[active |-> Rfc5766Kinds, body |-> Tlv(25, <<17, 1, 2, 3>>, <<>>)],
          [active |-> Rfc5766Kinds, body |-> Tlv(24, <<255>>, <<1, 2, 3>>)],
          [active |-> Rfc5766Kinds, body |-> Tlv(12, <<64, 1, 255, 255>>, <<>>)],
          [active |-> Rfc5780Kinds, body |-> Tlv(39, <<0, 80, 0, 0>>, <<>>)],
          [active |-> {"MappedAddress"},
           body |-> Tlv(1, <<9, 1, 128, 85, 192, 0, 2, 1>>, <<>>)],
          [active |-> Rfc5389Kinds, body |-> Tlv(9, <<255, 255, 4, 1, 78, 111>>, <<0, 0>>)]}

\* Attribute sections that do not parse, each with the length the header
\* declares for it: a value cut short by the end of the stream (the stream of
\* tests::decoder_fails_when_decoding_attributes), an attribute header cut
\* short by the section, a value running past the section, an unknown
\* address family, text that is not UTF-8, an error number of 100, values
\* of the wrong size, a channel number out of range, missing padding, a
\* FINGERPRINT that does not match, and a bad attribute followed by more.
MalformedSamples ==
    {[active |-> {"MappedAddress"}, len |-> 12,
      body |-> <<0, 1, 0, 8, 0, 1, 0, 80, 127, 0, 0>>],
     [active |-> Rfc5389Kinds, len |-> 2, body |-> <<128, 34>>],
     [active |-> Rfc5389Kinds, len |-> 8, body |-> <<128, 34, 0, 8, 102, 111, 111, 111>>],
     [active |-> Rfc5389Kinds, len |-> 12,
      body |-> Tlv(1, <<0, 3, 0, 80, 127, 0, 0, 1>>, <<>>)],
     [active |-> Rfc5389Kinds, len |-> 8, body |-> Tlv(32802, <<255, 254>>, <<0, 0>>)],
     [active |-> Rfc5389Kinds, len |-> 8, body |-> Tlv(9, <<0, 0, 4, 100>>, <<>>)],
     [active |-> Rfc5766Kinds, len |-> 12,
      body |-> Tlv(13, <<0, 0, 0, 1, 0, 0, 0, 2>>, <<>>)],
     [active |-> Rfc5766Kinds, len |-> 8, body |-> Tlv(13, <<0, 1>>, <<0, 0>>)],
     [active |-> Rfc5766Kinds, len |-> 8, body |-> Tlv(12, <<80, 0, 0, 0>>, <<>>)],
     [active |-> Rfc5389Kinds, len |-> 7, body |-> Tlv(32802, <<102, 111, 111>>, <<>>)],
     [active |-> Rfc5389Kinds, len |-> 16,
      body |-> Tlv(32802, <<102, 111, 111>>, <<0>>) \o Tlv(32808, <<1, 2, 3, 4>>, <<>>)],
     [active |-> Rfc5389Kinds, len |-> 28,
      body |-> Tlv(1, <<0, 3, 0, 80, 127, 0, 0, 1>>, <<>>)
               \o Tlv(32802, <<255, 254>>, <<0, 0>>)
               \o Tlv(32802, <<102, 111, 111>>, <<32>>)]}

\* The FINGERPRINT value of a stream cut before its FINGERPRINT attribute, as
\* RFC 5389 has a sender compute it: the checksum of the bytes with the
\* header length raised by the 8 bytes of the attribute.
WireFingerprint(prefix) ==
    U32be(Xor32(Crc32(WriteLength(prefix, Len(prefix) - 20 + 8)), FingerprintXor))

\* Attribute sections holding a FINGERPRINT, right or wrong, after nothing,
\* after a SOFTWARE with zero or other padding, after a MAPPED-ADDRESS whose
\* unused byte is set and after a XOR-MAPPED-ADDRESS, and before nothing or
\* before a USERNAME.
FingerprintPrefixSamples ==
    {<<>>, Tlv(32802, <<102, 111, 111>>, <<0>>), Tlv(32802, <<102, 111, 111>>, <<32>>),
     Tlv(1, <<9, 1, 128, 85, 192, 0, 2, 1>>, <<>>),
     Tlv(32, <<0, 1, 161, 71, 225, 18, 166, 67>>, <<>>)}

FingerprintSamples ==
    {[word |-> w,
      body |-> p \o Tlv(32808,
                        IF good THEN WireFingerprint(WellFormed(w, Tid5769, p))
                        ELSE <<1, 2, 3, 4>>, <<>>) \o s] :
        w \in {1, 32}, p \in FingerprintPrefixSamples, good \in BOOLEAN,
        s \in {<<>>, Tlv(6, <<101, 118>>, <<0, 0>>)}}

\* The MESSAGE-INTEGRITY value of a stream cut before its MESSAGE-INTEGRITY
\* attribute, as RFC 5389 has a sender compute it: the digest of the bytes
\* with the header length raised by the 24 bytes of the attribute.
WireIntegrity(key, prefix) ==
    generate_hmac_token(key, WriteLength(prefix, Len(prefix) - 20 + 24))

\* Attribute sections holding a MESSAGE-INTEGRITY made with a short-term
\* credential, with a long-term credential, or of arbitrary bytes, after
\* nothing, after a SOFTWARE with padding that is not zero and after a
\* MAPPED-ADDRESS whose unused byte is set; two of them before a USERNAME.
IntegrityPrefixSamples ==
    {<<>>, Tlv(32802, <<102, 111, 111>>, <<32>>),
     Tlv(1, <<9, 1, 128, 85, 192, 0, 2, 1>>, <<>>)}

IntegrityValue(how, prefix) ==
    CASE how = "short" -> WireIntegrity(<<112, 97, 115, 115>>, prefix)
      [] how = "long" ->
            WireIntegrity(LongTermKey(UserSample, RealmSample, <<112, 97, 115, 115>>), prefix)
      [] OTHER -> [i \in 1..20 |-> i]

IntegritySamples ==
    {[word |-> w,
      body |-> p \o Tlv(8, IntegrityValue(how, WellFormed(w, Tid5769, p)), <<>>)] :
        w \in {1, 32}, p \in IntegrityPrefixSamples, how \in {"short", "long", "other"}}
    \cup {[word |-> 1,
           body |-> Tlv(8, IntegrityValue(how, WellFormed(1, Tid5769, <<>>)), <<>>)
                    \o Tlv(6, <<101, 118>>, <<0, 0>>)] : how \in {"short", "other"}}

\* Headers a decoder must refuse: a type word with one of its two most
\* significant bits set, a magic cookie that is not 0x2112A442, or both.
BadHeaderSamples ==
    {[word |-> w, cookie |-> MAGIC_COOKIE] : w \in {16385, 32769, 49409, 65535}}
    \cup {[word |-> 1, cookie |-> c] : c \in {<<33, 18, 164, 67>>, <<0, 0, 0, 0>>,
                                              <<66, 164, 18, 33>>}}
    \cup {[word |-> 32769, cookie |-> <<33, 18, 164, 67>>]}

\* Bytes that follow a message in its stream.
TrailingSamples == {[i \in 1..k |-> 255 - i] : k \in 0..MaxTrailing}

\* A sampled stream with what it was built from: the attribute set it is
\* decoded with, the header's type word, declared length and transaction
\* id, and what kind of stream it is.
StreamScenario(tag, active, word, len, transaction_id, stream) ==
    [plan |-> "stream", tag |-> tag, active |-> active, word |-> word, len |-> len,
     transaction_id |-> transaction_id, stream |-> stream,
     message |-> Message_new(0, 0, transaction_id)]

StreamScenarios ==
    {StreamScenario("unknown", Rfc5389Kinds, 1, Len(b), Tid3, WellFormed(1, Tid3, b)) :
        b \in UnknownTlvSamples}
    \cup {StreamScenario("unknown", Rfc5766Kinds, w, Len(b), Tid5769,
                         WellFormed(w, Tid5769, b) \o t) :
            w \in WordSamples, b \in {<<>>, Tlv(65535, <<7, 8>>, <<9, 10>>)},
            t \in TrailingSamples}
    \cup {StreamScenario("unknown", Rfc5780Kinds, 257, Len(b), Tid5769,
                         WellFormed(257, Tid5769, b) \o t) :
            b \in UnknownListSamples, t \in TrailingSamples}
    \cup {StreamScenario("known", k.active, 257, Len(k.body), Tid3,
                         WellFormed(257, Tid3, k.body)) : k \in KnownTlvSamples}
    \cup {StreamScenario("malformed", x[1].active, 1, x[1].len, Tid3,
                         StreamOf(1, x[1].len, MAGIC_COOKIE, Tid3, x[1].body) \o x[2]) :
            x \in {y \in MalformedSamples \X TrailingSamples :
                        y[2] = <<>> \/ Len(y[1].body) = y[1].len}}
    \cup {StreamScenario("fingerprint", Rfc5389Kinds, x.word, Len(x.body), Tid5769,
                         WellFormed(x.word, Tid5769, x.body)) : x \in FingerprintSamples}
    \cup {StreamScenario("integrity", Rfc5389Kinds, x.word, Len(x.body), Tid5769,
                         WellFormed(x.word, Tid5769, x.body)) : x \in IntegritySamples}
    \cup {StreamScenario("badheader", Rfc5389Kinds, h.word, Len(b), Tid3,
                         StreamOf(h.word, Len(b), h.cookie, Tid3, b)) :
            h \in BadHeaderSamples, b \in {<<>>, Tlv(32802, <<102, 111, 111>>, <<0>>)}}

\* A sampled message with the attribute set it is decoded with.
AllMessageScenarios ==
    [i \in 1..Len(MessageScenarios) |->
        [plan |-> "message", tag |-> "message", active |-> MessageScenarios[i].active,
         word |-> 0, len |-> 0,
         transaction_id |-> MessageScenarios[i].message.transaction_id, stream |-> <<>>,
         message |-> MessageScenarios[i].message]]

(***************************************************************************)
(* The program's state: one run takes a sampled message or stream through  *)
(* a MessageEncoder and a MessageDecoder as a caller drives them.          *)
(***************************************************************************)
vars == <<fin, fout, scen, pc, msg, encoder, out, encErr, input, pos, decoder, decErr, result, hist>>

mainVars == <<scen, pc, msg, encoder, out, encErr, input, pos, decoder, decErr, result, hist>>

\* Sizes of the buffers a caller encodes into and decodes from.
BufferSizes == {1, 256}

NoResult == [some |-> FALSE, res |-> DecodeErr("")]

NoCall == [n |-> 0, used |-> 0, eos |-> FALSE, errBefore |-> "", remBefore |-> 0,
           headerBefore |-> FALSE]

\* What an observer has noted of the run: the error that was recorded
\* first, the last decode call, the header, the recorded error and the
\* collected attributes that finish_decoding found, and the output of the
\* first encoding.
NoHistory ==
    [firstError |-> "", call |-> NoCall, headerAtFinish |-> NoHeader,
     errorAtFinish |-> "", remainingAtFinish |-> 0, sectionError |-> "", wire |-> <<>>, calls |-> 0,
     itemsAtFinish |-> <<>>]

Idle ==
    /\ pc = "idle"
    /\ scen = StreamScenario("idle", {}, 0, 0, Tid3, <<>>)
    /\ msg = Message_new(0, 0, Tid3)
    /\ encoder = NewMessageEncoder
    /\ out = <<>>
    /\ encErr = ""
    /\ input = <<>>
    /\ pos = 0
    /\ decoder = NewMessageDecoder
    /\ decErr = ""
    /\ result = NoResult
    /\ hist = NoHistory

Init ==
    /\ fin = [op |-> "none"]
    /\ fout = [done |-> FALSE]
    /\ \/ \E i \in 1..Len(AllMessageScenarios) : scen = AllMessageScenarios[i]
       \/ scen \in StreamScenarios
    /\ pc = IF scen.plan = "message" THEN "start" ELSE "decode"
    /\ msg = scen.message
    /\ encoder = NewMessageEncoder
    /\ out = <<>>
    /\ encErr = ""
    /\ input = scen.stream
    /\ pos = 0
    /\ decoder = NewMessageDecoder
    /\ decErr = ""
    /\ result = NoResult
    /\ hist = NoHistory

\* MessageEncoder::start_encoding(msg) on a fresh encoder.
StartEncoding ==
    /\ pc \in {"start", "restart"}
    /\ \E s \in {MessageEncoder_start_encoding(encoder, msg)} :
           /\ encoder' = s.enc
           /\ encErr' = s.err
           /\ pc' = IF s.err # "" THEN "done"
                    ELSE IF pc = "start" THEN "encode" ELSE "reencode"
    /\ UNCHANGED <<fin, fout, scen, msg, out, input, pos, decoder, decErr, result, hist>>

\* MessageEncoder::encode into a buffer of n bytes.
Encode(n) ==
    /\ pc \in {"encode", "reencode"}
    /\ ~MessageEncoder_is_idle(encoder)
    /\ \E e \in {MessageEncoder_encode(encoder, n)} :
           /\ encoder' = e.enc
           /\ out' = out \o e.written
    /\ UNCHANGED <<fin, fout, scen, pc, msg, encErr, input, pos, decoder, decErr, result, hist>>

\* The encoder is idle: the caller sends what it wrote, and the peer
\* decodes it.
Deliver ==
    /\ pc = "encode"
    /\ MessageEncoder_is_idle(encoder)
    /\ input' = out
    /\ hist' = [hist EXCEPT !.wire = out]
    /\ pc' = "decode"
    /\ UNCHANGED <<fin, fout, scen, msg, encoder, out, encErr, pos, decoder, decErr, result>>

\* The second encoding is complete.
Complete ==
    /\ pc = "reencode"
    /\ MessageEncoder_is_idle(encoder)
    /\ pc' = "done"
    /\ UNCHANGED <<fin, fout, scen, msg, encoder, out, encErr, input, pos, decoder, decErr,
                   result, hist>>

\* MessageDecoder::decode on the next n bytes of the stream (fewer at its
\* end).  The caller signals the end of the stream only with the buffer that
\* holds its last byte, and may not signal it at all.
Decode(n, eos) ==
    /\ pc = "decode"
    /\ pos < Len(input)
    /\ ~MessageDecoder_is_idle(decoder)
    /\ eos => pos + n >= Len(input)
    /\ \E r \in {MessageDecoder_decode(decoder,
                                        SubSeq(input, pos + 1, Min(pos + n, Len(input))),
                                        eos, scen.active)} :
           /\ decoder' = r.dec
           /\ pos' = pos + r.used
           /\ decErr' = r.err
           /\ pc' = IF r.err # "" THEN "done" ELSE "decode"
           /\ hist' = [hist EXCEPT
                         !.firstError = IF @ = "" THEN r.dec.attributes.inner.last_error
                                         ELSE @,
                         !.calls = Min(@ + 1, 2),
                         !.call = [n |-> Min(n, Len(input) - pos), used |-> r.used, eos |-> eos,
                                   errBefore |-> decoder.attributes.inner.last_error,
                                   remBefore |-> decoder.attributes.remaining,
                                   headerBefore |-> decoder.header.item.some]]
    /\ UNCHANGED <<fin, fout, scen, msg, encoder, out, encErr, input, result>>

\* MessageDecoder::finish_decoding, called when the decoder is idle or the
\* stream has ended.  A decoded message goes to a fresh encoder.
FinishDecoding ==
    /\ pc = "decode"
    /\ MessageDecoder_is_idle(decoder) \/ pos = Len(input)
    /\ \E f \in {MessageDecoder_finish_decoding(decoder)} :
           /\ decoder' = f.dec
           /\ result' = [some |-> TRUE, res |-> f.res]
           /\ pc' = IF f.res.kind = "Message" THEN "restart" ELSE "done"
           /\ msg' = IF f.res.kind = "Message"
                      THEN [class |-> f.res.class, method |-> f.res.method,
                            transaction_id |-> f.res.transaction_id,
                            attributes |-> f.res.attributes]
                      ELSE msg
           /\ hist' = [hist EXCEPT
                         !.call = NoCall,
                         !.headerAtFinish = decoder.header.item,
                         !.errorAtFinish = decoder.attributes.inner.last_error,
                         !.remainingAtFinish = decoder.attributes.remaining,
                         !.itemsAtFinish = decoder.attributes.inner.inner.items,
                         !.sectionError =
                            IF ~decoder.header.item.some THEN ""
                            ELSE With(finish_decoding_with_header(
                                          decoder.attributes, decoder.header.item.method,
                                          decoder.header.item.class,
                                          decoder.header.item.transaction_id),
                                      LAMBDA w : IF w.res.ok THEN "" ELSE w.res.err)]
    /\ encoder' = NewMessageEncoder
    /\ out' = <<>>
    /\ UNCHANGED <<fin, fout, scen, encErr, input, pos, decErr>>

\* The positions of the MESSAGE-INTEGRITY attributes among decoded ones.
IntegrityIn(attributes) ==
    {j \in 1..Len(attributes) :
        attributes[j].known /\ attributes[j].inner.kind = "MessageIntegrity"}

\* MessageIntegrity::check_short_term_credential on a MESSAGE-INTEGRITY of
\* the decoded message, once the run is over.
CheckShortTermCredential(password) ==
    /\ pc = "done"
    /\ result.some
    /\ result.res.kind = "Message"
    /\ ~fout.done
    /\ \E j \in IntegrityIn(result.res.attributes) :
           fout' = [done |-> TRUE, op |-> "short", at |-> j, password |-> password,
                    res |-> check_short_term_credential(result.res.attributes[j].inner.v,
                                                        password)]
    /\ UNCHANGED <<fin, mainVars>>

\* MessageIntegrity::check_long_term_credential, likewise.
CheckLongTermCredential(username, realm, password) ==
    /\ pc = "done"
    /\ result.some
    /\ result.res.kind = "Message"
    /\ ~fout.done
    /\ \E j \in IntegrityIn(result.res.attributes) :
           fout' = [done |-> TRUE, op |-> "long", at |-> j, password |-> password,
                    res |-> check_long_term_credential(result.res.attributes[j].inner.v,
                                                       username, realm, password)]
    /\ UNCHANGED <<fin, mainVars>>

Next ==
    \/ StartEncoding
    \/ \E n \in BufferSizes : Encode(n)
    \/ Deliver
    \/ \E n \in BufferSizes, eos \in BOOLEAN : Decode(n, eos)
    \/ FinishDecoding
    \/ Complete
    \/ \E password \in PasswordSamples : CheckShortTermCredential(password)
    \/ \E password \in PasswordSamples :
           CheckLongTermCredential(UserSample, RealmSample, password)

Spec == Init /\ [][Next]_vars

(***************************************************************************)
(* What the properties below read off a run.                               *)
(***************************************************************************)
\* The length that the header of the stream being decoded declares.
DeclaredLen == U16from(SubSeq(input, 3, 4))

\* The stream being decoded starts with a whole header that from_u16 and
\* check_magic_cookie accept.
HeaderOk ==
    /\ Len(input) >= 20
    /\ U16from(SubSeq(input, 1, 2)) < 16384
    /\ SubSeq(input, 5, 8) = MAGIC_COOKIE

\* The stream being decoded starts with a whole header whose type has one of
\* its two top bits set or whose cookie is not the magic cookie.
BadHeader ==
    /\ Len(input) >= 20
    /\ U16from(SubSeq(input, 1, 2)) >= 16384 \/ SubSeq(input, 5, 8) # MAGIC_COOKIE

\* The encoder has written a whole message to out.
EncodingComplete == out # <<>> /\ encErr = "" /\ MessageEncoder_is_idle(encoder)

\* The encoder has written a whole message built with add_attribute.
FirstEncodingComplete ==
    scen.plan = "message" /\ pc \in {"encode", "decode"} /\ EncodingComplete

\* Two attribute values are equal: the kinds are compared before the values.
AttrEq(a, b) == a.kind = b.kind /\ a.v = b.v

\* Where k attributes that start at offset o of bytes end when each takes 4
\* bytes, its declared length and the padding to a multiple of four; -1 when
\* the bytes end before the k attributes do.
RECURSIVE SectionEnd(_, _, _)
SectionEnd(bytes, o, k) ==
    IF k = 0 THEN o
    ELSE IF o + 4 > Len(bytes) THEN -1
    ELSE SectionEnd(bytes,
                    o + 4 + U16from(SubSeq(bytes, o + 3, o + 4))
                      + PadLen(U16from(SubSeq(bytes, o + 3, o + 4))),
                    k - 1)

\* The attributes of a well-formed attribute section, read as raw
\* attributes: type, value and padding of each.
RECURSIVE RawAttrsOf(_)
RawAttrsOf(body) ==
    IF Len(body) < 4 THEN <<>>
    ELSE With(U16from(SubSeq(body, 3, 4)), LAMBDA n :
            <<[known |-> FALSE,
               inner |-> [kind |-> "Raw",
                          v |-> [attr_type |-> U16from(SubSeq(body, 1, 2)),
                                 value |-> SubSeq(body, 5, 4 + n)]],
               padding |-> SomePadding(SubSeq(body, 5 + n, 4 + n + PadLen(n)))]>>
            \o RawAttrsOf(Drop(body, 4 + n + PadLen(n))))

\* Attributes i, i+1, ... of attrs stand in bytes from offset o to the end,
\* each as its type, the length of its value, its value and zero bytes up to
\* the next multiple of four.
RECURSIVE ZeroPaddedFrom(_, _, _, _)
ZeroPaddedFrom(bytes, o, attrs, i) ==
    IF i > Len(attrs) THEN o = Len(bytes)
    ELSE With(ValueEncoder_bytes(attrs[i].inner), LAMBDA value :
            /\ o + 4 + Len(value) + PadLen(Len(value)) <= Len(bytes)
            /\ SubSeq(bytes, o + 1, o + 2) = U16be(get_type(attrs[i].inner))
            /\ SubSeq(bytes, o + 3, o + 4) = U16be(Len(value))
            /\ SubSeq(bytes, o + 5, o + 4 + Len(value)) = value
            /\ SubSeq(bytes, o + 5 + Len(value), o + 4 + Len(value) + PadLen(Len(value)))
                   = Zeros(PadLen(Len(value)))
            /\ ZeroPaddedFrom(bytes, o + 4 + Len(value) + PadLen(Len(value)), attrs, i + 1))

\* C1: a message over the catalog that the encoder encodes is decoded from
\* those bytes as Ok(Message) with the same class, method and transaction
\* id and the same attribute values in the same order.
C1_RoundTrip ==
    (scen.plan = "message" /\ hist.wire # <<>> /\ result.some) =>
        /\ result.res.kind = "Message"
        /\ result.res.class = scen.message.class
        /\ result.res.method = scen.message.method
        /\ result.res.transaction_id = scen.message.transaction_id
        /\ Len(result.res.attributes) = Len(scen.message.attributes)
        /\ \A i \in 1..Len(scen.message.attributes) :
                /\ result.res.attributes[i].known
                /\ AttrEq(result.res.attributes[i].inner, scen.message.attributes[i].inner)

\* C2: a well-formed stream whose attributes all have types outside the
\* active attribute set is decoded as Ok(Message) that holds each of them
\* as a raw attribute with its type, value and padding, and encoding that
\* message writes the bytes of the stream's message.
C2_UnknownPreserved ==
    (scen.tag = "unknown" /\ pc = "done") =>
        /\ result.some
        /\ result.res.kind = "Message"
        /\ result.res.attributes = RawAttrsOf(SubSeq(input, 21, 20 + DeclaredLen))
        /\ encErr = ""
        /\ out = Take(input, 20 + DeclaredLen)

\* C3: whenever a stream is decoded as Ok(Message m), encoding m writes the
\* stream's message byte for byte, captured padding included.
C3_ByteExact ==
    (pc = "done" /\ result.some /\ result.res.kind = "Message") =>
        /\ encErr = ""
        /\ out = Take(input, 20 + DeclaredLen)

C5_ExactConsumption ==
    HeaderOk =>
        /\ pos <= 20 + DeclaredLen
        /\ (result.some /\ Len(input) >= 20 + DeclaredLen) =>
                pos = 20 + DeclaredLen /\ decErr = ""
        /\ (pc = "decode" /\ MessageDecoder_is_idle(decoder)) => pos = 20 + DeclaredLen
        /\ hist.call.errBefore # "" =>
                /\ hist.call.used = Min(hist.call.n, hist.call.remBefore)
                /\ decoder.attributes.inner.last_error = hist.call.errBefore
        /\ decoder.attributes.inner.last_error # "" =>
                decoder.attributes.inner.last_error = hist.firstError

\* A decode call made with an error recorded was given the rest of the
\* section and bytes beyond it, and took the rest of the section only.
C5_Witness ==
    /\ HeaderOk
    /\ hist.call.errBefore # ""
    /\ hist.call.used > 0
    /\ hist.call.used = hist.call.remBefore
    /\ hist.call.n > hist.call.used

\* C6: in every message the encoder has written, the big-endian u16 at
\* bytes 2..4 is the number of bytes after the 20-byte header, and those
\* bytes are the attributes, each 4 bytes, its value and its padding.
C6_MessageLength ==
    EncodingComplete =>
        /\ Len(out) >= 20
        /\ U16from(SubSeq(out, 3, 4)) = Len(out) - 20
        /\ SectionEnd(out, 20, Len(msg.attributes)) = Len(out)

\* A message of two attributes, one of them padded, has been written.
C6_Witness ==
    /\ FirstEncodingComplete
    /\ Len(msg.attributes) = 2
    /\ U16from(SubSeq(out, 3, 4)) > 8
    /\ U16from(SubSeq(out, 23, 24)) % 4 # 0

\* C8: a stream whose header has a top bit of the type set or a wrong
\* cookie fails in the decode call that completes the header, with
\* InvalidInput; no result is produced, the attributes decoder is untouched
\* and no byte after the header is taken.
C8_BadHeaderRejected ==
    BadHeader =>
        /\ pos <= 20
        /\ ~result.some
        /\ decoder.attributes = NewMessageDecoder.attributes
        /\ pos = 20 => (pc = "done" /\ decErr = "InvalidInput")
        /\ pc = "done" => pos = 20

\* A header with an accepted type and a wrong cookie, followed by an
\* attribute, was fed in more than one call and has been rejected.
C8_Witness ==
    /\ BadHeader
    /\ U16from(SubSeq(input, 1, 2)) < 16384
    /\ Len(input) > 20
    /\ hist.calls = 2
    /\ pc = "done"
    /\ decErr = "InvalidInput"

\* C9: in the bytes written for a message built with add_attribute, every
\* attribute's value is followed by (4 - value_len mod 4) mod 4 zero bytes
\* and its length field holds value_len.
C9_ZeroPadding ==
    FirstEncodingComplete =>
        ZeroPaddedFrom(out, 20, BeforeEncodePass(msg, 1).val.attributes, 1)

\* A message with two attributes, the first of a length that is no multiple
\* of four, has been written.
C9_Witness ==
    /\ FirstEncodingComplete
    /\ Len(msg.attributes) = 2
    /\ Len(ValueEncoder_bytes(msg.attributes[1].inner)) % 4 # 0

(***************************************************************************)
(* Specification SpecType: Type::as_u16 followed by Type::from_u16 for     *)
(* every class and every method below 0x1000.                              *)
(***************************************************************************)
InitType ==
    /\ fin \in [op : {"type"}, class : MessageClasses, method : 0..(MethodLimit - 1)]
    /\ fout = [done |-> FALSE]
    /\ Idle

\* Type::as_u16 of the sampled type.
TypeAsU16 ==
    /\ fin.op = "type"
    /\ ~fout.done
    /\ fout' = [done |-> TRUE, word |-> Type_as_u16(fin.class, fin.method)]
    /\ UNCHANGED <<fin, mainVars>>

\* Type::from_u16 of the word that as_u16 returned.
TypeFromU16 ==
    /\ fin.op = "type"
    /\ fout.done
    /\ "back" \notin DOMAIN fout
    /\ fout' = [done |-> TRUE, word |-> fout.word, back |-> Type_from_u16(fout.word)]
    /\ UNCHANGED <<fin, mainVars>>

NextType == TypeAsU16 \/ TypeFromU16

SpecType == InitType /\ [][NextType]_vars

\* C7: for every class and every method below 0x1000, as_u16 is the packing
\* formula (in 16-bit arithmetic) with its two top bits zero, a Binding
\* request packs to 0x0001 and a Binding success response to 0x0101, and
\* from_u16 of the packed word gives the class and the method back.
C7_TypePacking ==
    (fin.op = "type" /\ "back" \in DOMAIN fout) =>
        /\ fout.word = BitOr(BitOr(BitOr(BitOr(
                            fin.method % 16,
                            ((fin.class % 2) * 16) % 65536),
                            (BitAnd(fin.method, 112) * 32) % 65536),
                            (BitAnd(fin.class, 2) * 128) % 65536),
                            (BitAnd(fin.method, 3968) * 512) % 65536)
        /\ fout.word < 16384
        /\ (fin.class = 0 /\ fin.method = 1) => fout.word = 1
        /\ (fin.class = 2 /\ fin.method = 1) => fout.word = 257
        /\ fout.back.ok
        /\ fout.back.class = fin.class
        /\ fout.back.method = fin.method

(***************************************************************************)
(* Specification SpecXor: socket_addr_xor applied once and then once more  *)
(* with the same transaction id, for IPv4 and IPv6 addresses.              *)
(***************************************************************************)
PortSamples == {0, 80, 8466, 32853, 65535}

Ip4Samples == {<<0, 0, 0, 0>>, <<127, 0, 0, 1>>, <<192, 0, 2, 1>>, <<255, 255, 255, 255>>}

Ip6Samples == {[i \in 1..16 |-> 0], Addr6.ip, [i \in 1..16 |-> 255]}

XorAddrSamples ==
    {[fam |-> 4, ip |-> ip, port |-> port] : ip \in Ip4Samples, port \in PortSamples}
    \cup {[fam |-> 6, ip |-> ip, port |-> port] : ip \in Ip6Samples, port \in PortSamples}

XorTidSamples == TidSamples \cup {[i \in 1..12 |-> 0], [i \in 1..12 |-> 255]}

InitXor ==
    /\ fin \in [op : {"xor"}, addr : XorAddrSamples, transaction_id : XorTidSamples]
    /\ fout = [done |-> FALSE]
    /\ Idle

\* socket_addr_xor of the sampled address.
XorOnce ==
    /\ fin.op = "xor"
    /\ ~fout.done
    /\ fout' = [done |-> TRUE, once |-> socket_addr_xor(fin.addr, fin.transaction_id)]
    /\ UNCHANGED <<fin, mainVars>>

\* socket_addr_xor of the address that the first application returned.
XorTwice ==
    /\ fin.op = "xor"
    /\ fout.done
    /\ "twice" \notin DOMAIN fout
    /\ fout' = [done |-> TRUE, once |-> fout.once,
                twice |-> socket_addr_xor(fout.once, fin.transaction_id)]
    /\ UNCHANGED <<fin, mainVars>>

NextXor == XorOnce \/ XorTwice

SpecXor == InitXor /\ [][NextXor]_vars

CookieByte(i) == CASE i = 1 -> 33 [] i = 2 -> 18 [] i = 3 -> 164 [] i = 4 -> 66

\* C11: socket_addr_xor keeps the address family, xors the port with 0x2112,
\* xors IPv4 octet i with byte i of 0x2112A442, and for IPv6 xors octets 0..3
\* with the cookie bytes and octets 4..15 with bytes 0..11 of the transaction
\* id.
C11_XorFormula ==
    (fin.op = "xor" /\ fout.done) =>
        /\ fout.once.fam = fin.addr.fam
        /\ fout.once.port = BitXor(fin.addr.port, 33 * 256 + 18)
        /\ Len(fout.once.ip) = Len(fin.addr.ip)
        /\ \A i \in 1..Len(fin.addr.ip) :
              fout.once.ip[i] = BitXor(fin.addr.ip[i],
                                       IF i <= 4 THEN CookieByte(i)
                                       ELSE fin.transaction_id[i - 4])

\* An IPv6 address has been xored with a transaction id whose bytes differ
\* from one another.
C11_Witness ==
    /\ fin.op = "xor"
    /\ fout.done
    /\ fin.addr.fam = 6
    /\ fin.transaction_id[1] # fin.transaction_id[12]
    /\ fout.once.ip[16] = BitXor(fin.addr.ip[16], fin.transaction_id[12])
    /\ fout.once.ip[16] # fin.addr.ip[16]

(***************************************************************************)
(* Address attributes on the wire.                                         *)
(***************************************************************************)
\* The socket address held by the value of the attribute that starts at
\* offset o of the stream: unused byte, family, port, address bytes.
WireAddr(bytes, o) ==
    [fam |-> IF bytes[o + 6] = 1 THEN 4 ELSE 6,
     port |-> U16from(SubSeq(bytes, o + 7, o + 8)),
     ip |-> SubSeq(bytes, o + 9, o + 4 + U16from(SubSeq(bytes, o + 3, o + 4)))]

\* C12: the address a XOR-* attribute puts on the wire is socket_addr_xor of
\* the stored address and the message's transaction id, the address it holds
\* after decoding is socket_addr_xor of the wire address, and the plain
\* address attributes carry the address as it is, in both directions.
C12_XorOnWire ==
    /\ FirstEncodingComplete =>
          \A i \in 1..Len(msg.attributes) :
              msg.attributes[i].inner.kind \in AddressKinds =>
                  WireAddr(out, SectionEnd(out, 20, i - 1)) =
                      IF msg.attributes[i].inner.kind \in XorKinds
                      THEN socket_addr_xor(msg.attributes[i].inner.v, msg.transaction_id)
                      ELSE msg.attributes[i].inner.v
    /\ (result.some /\ result.res.kind = "Message") =>
          \A i \in 1..Len(result.res.attributes) :
              (/\ result.res.attributes[i].known
               /\ result.res.attributes[i].inner.kind \in AddressKinds) =>
                  result.res.attributes[i].inner.v =
                      IF result.res.attributes[i].inner.kind \in XorKinds
                      THEN socket_addr_xor(WireAddr(input, SectionEnd(input, 20, i - 1)),
                                           SubSeq(input, 9, 20))
                      ELSE WireAddr(input, SectionEnd(input, 20, i - 1))

\* A message with an IPv6 XOR-RELAYED-ADDRESS has been encoded and decoded:
\* the wire holds another address than the message, and the decoded
\* attribute holds the address of the message again.
C12_Witness ==
    /\ scen.plan = "message"
    /\ result.some
    /\ result.res.kind = "Message"
    /\ Len(msg.attributes) = 1
    /\ msg.attributes[1].inner.kind = "XorRelayAddress"
    /\ msg.attributes[1].inner.v.fam = 6
    /\ WireAddr(input, 20) # msg.attributes[1].inner.v
    /\ result.res.attributes[1].inner.v = msg.attributes[1].inner.v

(***************************************************************************)
(* FINGERPRINT on decode.                                                  *)
(***************************************************************************)
\* The attributes items[1..j-1] as the encoder writes them: type, length,
\* value and the captured padding of each.
RECURSIVE SectionBytes(_, _)
SectionBytes(items, j) ==
    IF j <= 1 THEN <<>>
    ELSE SectionBytes(items, j - 1) \o LosslessAttributeEncoder_bytes(items[j - 1]).val

\* CRC-32/ISO-HDLC, XORed with 0x5354554E, of the message of header h
\* serialized up to attribute j, its length field holding the length of
\* that attribute section plus 8.
ExpectedFingerprint(h, items, j) ==
    With(SectionBytes(items, j), LAMBDA section :
        U32be(Xor32(Crc32(U16be(Type_as_u16(h.class, h.method))
                          \o U16be(Len(section) + 8) \o <<33, 18, 164, 66>>
                          \o h.transaction_id \o section),
                    <<21332, 21838>>)))

\* The positions of the FINGERPRINT attributes among the decoded ones.
FingerprintsIn(items) ==
    {j \in 1..Len(items) : items[j].known /\ items[j].inner.kind = "Fingerprint"}

\* The attribute section was read to its end without an error.
SectionRead ==
    /\ result.some
    /\ hist.headerAtFinish.some
    /\ hist.errorAtFinish = ""
    /\ hist.remainingAtFinish = 0

\* C13: a decoded FINGERPRINT is accepted exactly when its value is the
\* checksum, XORed with 0x5354554E, of the message serialized up to that
\* attribute with the length field counting the attribute's 8 bytes; on a
\* mismatch the result is a BrokenMessage with an InvalidInput error; and
\* the attributes after the FINGERPRINT play no part.
C13_FingerprintChecked ==
    (SectionRead /\ FingerprintsIn(hist.itemsAtFinish) # {}) =>
        IF \A j \in FingerprintsIn(hist.itemsAtFinish) :
               hist.itemsAtFinish[j].inner.v =
                   ExpectedFingerprint(hist.headerAtFinish, hist.itemsAtFinish, j)
        THEN result.res.kind = "Message"
        ELSE result.res.kind = "BrokenMessage" /\ result.res.error = "InvalidInput"

\* A stream whose right FINGERPRINT stands before a USERNAME and after a
\* SOFTWARE with padding that is not zero has been decoded to a Message.
C13_Witness ==
    /\ scen.tag = "fingerprint"
    /\ SectionRead
    /\ result.res.kind = "Message"
    /\ Len(hist.itemsAtFinish) = 3
    /\ FingerprintsIn(hist.itemsAtFinish) = {2}
    /\ hist.itemsAtFinish[1].padding.bytes = <<32>>

(***************************************************************************)
(* MESSAGE-INTEGRITY on decode.                                            *)
(***************************************************************************)
\* The received bytes that precede attribute j of the stream, with the
\* header length overwritten so that it counts the 24 bytes of a
\* MESSAGE-INTEGRITY attribute standing there.
ReceivedPrefix(j) ==
    With(SectionEnd(input, 20, j - 1), LAMBDA o :
        SubSeq(input, 1, 2) \o U16be(o - 20 + 24) \o SubSeq(input, 5, o))

\* C14: a decoded MESSAGE-INTEGRITY holds the 20 bytes of its value and the
\* received bytes that precede it, the header length overwritten to count
\* its 24 bytes; the credential checks return Ok exactly when the digest of
\* those bytes under the key is the stored value, and an ErrorCode of 401
\* otherwise; and no message is rejected for its MESSAGE-INTEGRITY value.
C14_IntegrityBytes ==
    /\ (result.some /\ result.res.kind = "Message") =>
          \A j \in IntegrityIn(result.res.attributes) :
              /\ result.res.attributes[j].inner.v.preceding_message_bytes = ReceivedPrefix(j)
              /\ result.res.attributes[j].inner.v.hmac_sha1 =
                    SubSeq(input, SectionEnd(input, 20, j - 1) + 5,
                           SectionEnd(input, 20, j - 1) + 24)
    /\ (fout.done /\ fout.op = "short") =>
          /\ fout.res.ok <=>
                generate_hmac_token(fout.password, ReceivedPrefix(fout.at)) =
                    result.res.attributes[fout.at].inner.v.hmac_sha1
          /\ ~fout.res.ok => fout.res.code = 401
    /\ (fout.done /\ fout.op = "long") =>
          /\ fout.res.ok <=>
                generate_hmac_token(LongTermKey(UserSample, RealmSample, fout.password),
                                    ReceivedPrefix(fout.at)) =
                    result.res.attributes[fout.at].inner.v.hmac_sha1
          /\ ~fout.res.ok => fout.res.code = 401
    /\ (/\ SectionRead
        /\ IntegrityIn(hist.itemsAtFinish) # {}
        /\ FingerprintsIn(hist.itemsAtFinish) = {}) => result.res.kind = "Message"

(***************************************************************************)
(* Known and unknown attribute types on decode.                            *)
(***************************************************************************)
\* Type and value bytes of the attribute that starts at offset o.
WireType(bytes, o) == U16from(SubSeq(bytes, o + 1, o + 2))

WireValue(bytes, o) == SubSeq(bytes, o + 5, o + 4 + U16from(SubSeq(bytes, o + 3, o + 4)))

\* The number of attributes of a decoded message that are unknown.
RECURSIVE UnknownCount(_)
UnknownCount(attributes) ==
    IF attributes = <<>> THEN 0
    ELSE (IF attributes[1].known THEN 0 ELSE 1) + UnknownCount(Tail(attributes))

\* C15: an attribute whose type is the CODEPOINT of a variant of the active
\* set is decoded as that variant; an attribute of any other type,
\* comprehension-required or optional, does not make the decode fail, is kept
\* as an unknown RawAttribute with the type and value bytes of the wire, and
\* is among unknown_attributes().
C15_UnknownKept ==
    /\ (result.some /\ result.res.kind = "Message") =>
          /\ \A i \in 1..Len(result.res.attributes) :
                IF \E k \in scen.active :
                        CODEPOINT(k) = WireType(input, SectionEnd(input, 20, i - 1))
                THEN /\ result.res.attributes[i].known
                     /\ result.res.attributes[i].inner.kind \in scen.active
                     /\ CODEPOINT(result.res.attributes[i].inner.kind) =
                            WireType(input, SectionEnd(input, 20, i - 1))
                ELSE /\ ~result.res.attributes[i].known
                     /\ result.res.attributes[i].inner.kind = "Raw"
                     /\ result.res.attributes[i].inner.v.attr_type =
                            WireType(input, SectionEnd(input, 20, i - 1))
                     /\ result.res.attributes[i].inner.v.value =
                            WireValue(input, SectionEnd(input, 20, i - 1))
                     /\ \E n \in 1..Len(unknown_attributes(result.res)) :
                            unknown_attributes(result.res)[n] =
                                result.res.attributes[i].inner
          /\ Len(unknown_attributes(result.res)) = UnknownCount(result.res.attributes)
    /\ (scen.tag = "unknown" /\ result.some) =>
          /\ result.res.kind = "Message"
          /\ SectionEnd(input, 20, Len(result.res.attributes)) = 20 + DeclaredLen

\* A stream of two attributes of types outside the active set, the first
\* of them comprehension-required, has been decoded to a Message.
C15_Witness ==
    /\ scen.tag = "unknown"
    /\ result.some
    /\ result.res.kind = "Message"
    /\ Len(unknown_attributes(result.res)) = 2
    /\ unknown_attributes(result.res)[1].v.attr_type < 32768
    /\ unknown_attributes(result.res)[2].v.attr_type >= 32768

(***************************************************************************)
(* Specification SpecAddr: the socket-address codec on its own, encoding   *)
(* sampled addresses and decoding the result, and decoding sampled byte    *)
(* strings, each given to the decoder whole and with the end-of-stream     *)
(* mark set.                                                               *)
(***************************************************************************)
\* SocketAddrDecoder::decode followed by SocketAddrDecoder::finish_decoding
\* on the whole of `buf`; bytes the decoder leaves behind are InvalidInput.
SocketAddrDecoder_decode_from_bytes(buf) ==
    With(SocketAddrDecoder_decode(NewValueDecoder, buf, TRUE), LAMBDA s :
        IF s.err # "" THEN Err(s.err)
        ELSE IF s.used # Len(buf) THEN Err("InvalidInput")
        ELSE SocketAddrDecoder_finish_decoding(s.d))

UnusedByteSamples == {0, 7}

FamilyByteSamples == {0, 1, 2, 3}

AddrBodySamples == Ip4Samples \cup Ip6Samples \cup {<<>>, <<10, 0, 0>>}

AddrByteSamples ==
    {<<u, f>> \o p \o b : u \in UnusedByteSamples, f \in FamilyByteSamples,
                          p \in {<<0, 80>>, <<128, 85>>}, b \in AddrBodySamples}
    \cup {<<>>, <<0>>, <<0, 1>>, <<0, 2, 0>>}

InitAddr ==
    /\ fin \in [op : {"encode"}, addr : XorAddrSamples]
               \cup [op : {"decode"}, bytes : AddrByteSamples]
    /\ fout = [done |-> FALSE]
    /\ Idle

\* SocketAddrEncoder: the bytes of the sampled address.
EncodeAddr ==
    /\ fin.op = "encode"
    /\ ~fout.done
    /\ fout' = [done |-> TRUE, bytes |-> SocketAddrEncoder_bytes(fin.addr)]
    /\ UNCHANGED <<fin, mainVars>>

\* SocketAddrDecoder on the bytes the encoder wrote.
DecodeEncodedAddr ==
    /\ fin.op = "encode"
    /\ fout.done
    /\ "back" \notin DOMAIN fout
    /\ fout' = [done |-> TRUE, bytes |-> fout.bytes,
                back |-> SocketAddrDecoder_decode_from_bytes(fout.bytes)]
    /\ UNCHANGED <<fin, mainVars>>

\* SocketAddrDecoder on the sampled bytes.
DecodeAddr ==
    /\ fin.op = "decode"
    /\ ~fout.done
    /\ fout' = [done |-> TRUE, res |-> SocketAddrDecoder_decode_from_bytes(fin.bytes)]
    /\ UNCHANGED <<fin, mainVars>>

NextAddr == EncodeAddr \/ DecodeEncodedAddr \/ DecodeAddr

SpecAddr == InitAddr /\ [][NextAddr]_vars

CodepointSamples == 0..(MethodLimit + 64) \cup {8191, 8192, 32767, 32768, 65534, 65535}

\* Header words given to Type::from_u16.
HeaderWordSamples == {13 * k : k \in 0..1260} \cup {16383, 16384, 32768, 65535}

InitMethod ==
    /\ fin \in [op : {"new"}, arg : CodepointSamples]
               \cup [op : {"from_u8"}, arg : 0..255]
               \cup [op : {"constant"}, arg : MethodConstants]
               \cup [op : {"header"}, arg : HeaderWordSamples]
    /\ fout = [done |-> FALSE]
    /\ Idle

\* Method::new of the sampled codepoint.
MethodNew ==
    /\ fin.op = "new"
    /\ ~fout.done
    /\ fout' = [done |-> TRUE, res |-> Method_new(fin.arg)]
    /\ UNCHANGED <<fin, mainVars>>

\* Method::from of the sampled u8.
MethodFromU8 ==
    /\ fin.op = "from_u8"
    /\ ~fout.done
    /\ fout' = [done |-> TRUE, res |-> Ok(Method_from_u8(fin.arg))]
    /\ UNCHANGED <<fin, mainVars>>

\* One of the method constants.
MethodConstant ==
    /\ fin.op = "constant"
    /\ ~fout.done
    /\ fout' = [done |-> TRUE, res |-> Ok(fin.arg)]
    /\ UNCHANGED <<fin, mainVars>>

\* The method of Type::from_u16 of the sampled header word.
MethodOfHeader ==
    /\ fin.op = "header"
    /\ ~fout.done
    /\ fout' = [done |-> TRUE,
                res |-> IF Type_from_u16(fin.arg).ok
                        THEN Ok(Type_from_u16(fin.arg).method)
                        ELSE Err(Type_from_u16(fin.arg).err)]
    /\ UNCHANGED <<fin, mainVars>>

NextMethod == MethodNew \/ MethodFromU8 \/ MethodConstant \/ MethodOfHeader

SpecMethod == InitMethod /\ [][NextMethod]_vars

\* C17: Method::new(c) succeeds exactly when c < 0x1000 and is InvalidInput
\* otherwise, and every Method that Method::new, From<u8>, the method
\* constants or a decoded header yields is below 0x1000.
C17_MethodRange ==
    (fin.op \in {"new", "from_u8", "constant", "header"} /\ fout.done) =>
        /\ fin.op = "new" =>
              /\ fout.res.ok <=> fin.arg < 16 * 256
              /\ fout.res.ok => fout.res.val = fin.arg
              /\ ~fout.res.ok => fout.res.err = "InvalidInput"
        /\ fin.op # "new" /\ fin.arg < 16384 => fout.res.ok
        /\ fout.res.ok => fout.res.val < 16 * 256

\* Method::new has refused the codepoint 0x1000 with InvalidInput.
C17_Witness ==
    /\ fin.op = "new"
    /\ fout.done
    /\ fin.arg = 16 * 256
    /\ ~fout.res.ok
    /\ fout.res.err = "InvalidInput"

(***************************************************************************)
(* errors.rs of rfc5389, rfc5766, rfc5245, rfc8016 and rfc8656: the error  *)
(* constants and their conversion into an ErrorCode.                       *)
(***************************************************************************)
\* The error constants with the code and the phrase each hands to
\* ErrorCode::new, the phrase as the bytes of the string literal.
ErrorCatalog ==
    {\* TryAlternate: 300, "Try Alternate"
    [name |-> "TryAlternate", code |-> 300,
     phrase |-> <<84, 114, 121, 32, 65, 108, 116, 101, 114, 110, 97, 116, 101>>],
    \* BadRequest: 400, "Bad Request"
    [name |-> "BadRequest", code |-> 400,
     phrase |-> <<66, 97, 100, 32, 82, 101, 113, 117, 101, 115, 116>>],
    \* Unauthorized: 401, "Unauthorized"
    [name |-> "Unauthorized", code |-> 401,
     phrase |-> <<85, 110, 97, 117, 116, 104, 111, 114, 105, 122, 101, 100>>],
    \* Forbidden: 403, "Forbidden"
    [name |-> "Forbidden", code |-> 403,
     phrase |-> <<70, 111, 114, 98, 105, 100, 100, 101, 110>>],
    \* MobilityForbidden: 405, "Mobility Forbidden"
    [name |-> "MobilityForbidden", code |-> 405,
     phrase |-> <<77, 111, 98, 105, 108, 105, 116, 121, 32, 70, 111, 114, 98, 105, 100, 100,
                101, 110>>],
    \* UnknownAttribute: 420, "Unknown Attribute"
    [name |-> "UnknownAttribute", code |-> 420,
     phrase |-> <<85, 110, 107, 110, 111, 119, 110, 32, 65, 116, 116, 114, 105, 98, 117, 116,
                101>>],
    \* AllocationMismatch: 437, "Allocation Mismatch"
    [name |-> "AllocationMismatch", code |-> 437,
     phrase |-> <<65, 108, 108, 111, 99, 97, 116, 105, 111, 110, 32, 77, 105, 115, 109, 97,
                116, 99, 104>>],
    \* StaleNonce: 438, "Stale Nonce"
    [name |-> "StaleNonce", code |-> 438,
     phrase |-> <<83, 116, 97, 108, 101, 32, 78, 111, 110, 99, 101>>],
    \* AddressFamilyNotSupported: 440, "Address Family not Supported"
    [name |-> "AddressFamilyNotSupported", code |-> 440,
     phrase |-> <<65, 100, 100, 114, 101, 115, 115, 32, 70, 97, 109, 105, 108, 121, 32, 110,
                111, 116, 32, 83, 117, 112, 112, 111, 114, 116, 101, 100>>],
    \* WrongCredentials: 441, "Wrong Credentials"
    [name |-> "WrongCredentials", code |-> 441,
     phrase |-> <<87, 114, 111, 110, 103, 32, 67, 114, 101, 100, 101, 110, 116, 105, 97, 108,
                115>>],
    \* UnsupportedTransportProtocol: 442, "Unsupported Transport Protocol"
    [name |-> "UnsupportedTransportProtocol", code |-> 442,
     phrase |-> <<85, 110, 115, 117, 112, 112, 111, 114, 116, 101, 100, 32, 84, 114, 97, 110,
                115, 112, 111, 114, 116, 32, 80, 114, 111, 116, 111, 99, 111, 108>>],
    \* PeerAddressFamilyMismatch: 443, "Peer Address Family Mismatch"
    [name |-> "PeerAddressFamilyMismatch", code |-> 443,
     phrase |-> <<80, 101, 101, 114, 32, 65, 100, 100, 114, 101, 115, 115, 32, 70, 97, 109,
                105, 108, 121, 32, 77, 105, 115, 109, 97, 116, 99, 104>>],
    \* AllocationQuotaReached: 486, "Allocation Quota Reached"
    [name |-> "AllocationQuotaReached", code |-> 486,
     phrase |-> <<65, 108, 108, 111, 99, 97, 116, 105, 111, 110, 32, 81, 117, 111, 116, 97, 32,
                82, 101, 97, 99, 104, 101, 100>>],
    \* RoleConflict: 487, "Role Conflict"
    [name |-> "RoleConflict", code |-> 487,
     phrase |-> <<82, 111, 108, 101, 32, 67, 111, 110, 102, 108, 105, 99, 116>>],
    \* ServerError: 500, "Server Error"
    [name |-> "ServerError", code |-> 500,
     phrase |-> <<83, 101, 114, 118, 101, 114, 32, 69, 114, 114, 111, 114>>],
    \* InsufficientCapacity: 508, "Insufficient Capacity"
    [name |-> "InsufficientCapacity", code |-> 508,
     phrase |-> <<73, 110, 115, 117, 102, 102, 105, 99, 105, 101, 110, 116, 32, 67, 97, 112,
                97, 99, 105, 116, 121>>]}

\* A variant in which ServerError and InsufficientCapacity hand over each
\* other's code.
ErrorCode_from_swapped(name) ==
    With(CHOOSE e \in ErrorCatalog : e.name = name, LAMBDA e :
        With(ErrorCode_new(IF e.code = 500 THEN 508 ELSE IF e.code = 508 THEN 500 ELSE e.code,
                           e.phrase), LAMBDA r :
            [panic |-> ~r.ok, val |-> r.val]))

\* From<_> for ErrorCode of the named constant:
\* ErrorCode::new(CODEPOINT, phrase).expect("never fails").
ErrorCode_from(name) ==
    With(CHOOSE e \in ErrorCatalog : e.name = name, LAMBDA e :
        With(ErrorCode_new(e.code, e.phrase), LAMBDA r :
            [panic |-> ~r.ok, val |-> r.val]))

(***************************************************************************)
(* Specification SpecErrorCode: ErrorCode::new on sampled codes and        *)
(* phrases, the ERROR-CODE value codec on the error codes it returns, and  *)
(* the decoder on sampled byte strings.                                    *)
(***************************************************************************)
\* ErrorCodeDecoder::decode followed by finish_decoding on the whole of
\* `buf`, with the end-of-stream mark set.
ErrorCodeDecoder_decode_from_bytes(buf) ==
    With(ErrorCodeDecoder_decode(NewValueDecoder, buf, TRUE), LAMBDA s :
        IF s.err # "" THEN Err(s.err)
        ELSE IF s.used # Len(buf) THEN Err("InvalidInput")
        ELSE ValueDecoder_finish_decoding("ErrorCode", s.d))

CodeSamples == {0, 99, 299, 300, 301, 399, 400, 401, 420, 438, 487, 499, 500, 599,
                600, 601, 699, 700, 1023, 65535}

\* Reason phrases: none, "No", "Unauthorized", 127 and 128 letters, and 64
\* and 128 two-byte characters.
PhraseSamples ==
    {<<>>, <<78, 111>>, <<85, 110, 97, 117, 116, 104, 111, 114, 105, 122, 101, 100>>,
     [i \in 1..127 |-> 97], [i \in 1..128 |-> 97],
     [i \in 1..128 |-> IF i % 2 = 1 THEN 195 ELSE 169],
     [i \in 1..256 |-> IF i % 2 = 1 THEN 195 ELSE 169]}

ErrorCodeByteSamples ==
    {<<b1, b2, b3, b4>> \o p : b1 \in {0, 255}, b2 \in {0, 1},
                               b3 \in 0..8 \cup {251, 254}, b4 \in {0, 99, 100, 255},
                               p \in {<<>>, <<78, 111>>, <<255>>}}
    \cup {<<>>, <<0, 0, 4>>}

InitErrorCode ==
    /\ fin \in [op : {"new"}, code : CodeSamples, reason_phrase : PhraseSamples]
               \cup [op : {"decode"}, bytes : ErrorCodeByteSamples]
               \cup [op : {"from"}, error : {e.name : e \in ErrorCatalog}]
    /\ fout = [done |-> FALSE]
    /\ Idle

\* ErrorCode::new of the sampled code and phrase.
ErrorCodeNew ==
    /\ fin.op = "new"
    /\ ~fout.done
    /\ fout' = [done |-> TRUE, res |-> ErrorCode_new(fin.code, fin.reason_phrase)]
    /\ UNCHANGED <<fin, mainVars>>

\* ErrorCodeEncoder on the ErrorCode that ErrorCode::new returned.
EncodeErrorCode ==
    /\ fin.op = "new"
    /\ fout.done
    /\ fout.res.ok
    /\ "bytes" \notin DOMAIN fout
    /\ fout' = [done |-> TRUE, res |-> fout.res,
                bytes |-> ErrorCodeEncoder_bytes(fout.res.val)]
    /\ UNCHANGED <<fin, mainVars>>

\* ErrorCodeDecoder on the bytes the encoder wrote.
DecodeEncodedErrorCode ==
    /\ fin.op = "new"
    /\ fout.done
    /\ "bytes" \in DOMAIN fout
    /\ "back" \notin DOMAIN fout
    /\ fout' = [done |-> TRUE, res |-> fout.res, bytes |-> fout.bytes,
                back |-> ErrorCodeDecoder_decode_from_bytes(fout.bytes)]
    /\ UNCHANGED <<fin, mainVars>>

\* ErrorCodeDecoder on the sampled bytes.
DecodeErrorCode ==
    /\ fin.op = "decode"
    /\ ~fout.done
    /\ fout' = [done |-> TRUE, res |-> ErrorCodeDecoder_decode_from_bytes(fin.bytes)]
    /\ UNCHANGED <<fin, mainVars>>

\* The conversion of the sampled error constant into an ErrorCode.
ErrorCodeFrom ==
    /\ fin.op = "from"
    /\ ~fout.done
    /\ fout' = [done |-> TRUE, res |-> ErrorCode_from(fin.error)]
    /\ UNCHANGED <<fin, mainVars>>

NextErrorCode ==
    \/ ErrorCodeNew
    \/ EncodeErrorCode
    \/ DecodeEncodedErrorCode
    \/ DecodeErrorCode
    \/ ErrorCodeFrom

SpecErrorCode == InitErrorCode /\ [][NextErrorCode]_vars

\* C18: ErrorCode::new returns an error unless the code is in [300, 600) and
\* the reason phrase is shorter than 128 characters.
C18_ErrorCodeNewChecks ==
    (fin.op = "new" /\ fout.done) =>
        (fout.res.ok <=> (/\ fin.code >= 300
                          /\ fin.code < 600
                          /\ CharsCount(fin.reason_phrase) < 128))

\* C19: the ERROR-CODE value is a big-endian u32 with code / 100 in bits
\* 8..10, code % 100 in bits 0..7 and every higher bit zero, followed by the
\* UTF-8 reason phrase; decoding fails with InvalidInput when the class is
\* outside [3, 6) or the number is 100 or more; decoding what was encoded
\* gives the error code back.
C19_ErrorCodeWire ==
    /\ (fin.op = "new" /\ "bytes" \in DOMAIN fout) =>
          /\ Len(fout.bytes) = 4 + Len(fin.reason_phrase)
          /\ fout.bytes[1] = 0
          /\ fout.bytes[2] = 0
          /\ fout.bytes[3] = fin.code \div 100
          /\ fout.bytes[4] = fin.code % 100
          /\ SubSeq(fout.bytes, 5, Len(fout.bytes)) = fin.reason_phrase
    /\ (fin.op = "new" /\ "back" \in DOMAIN fout) =>
          /\ fout.back.ok
          /\ fout.back.val = fout.res.val
          /\ fout.back.val.code = fin.code
          /\ fout.back.val.reason_phrase = fin.reason_phrase
    /\ (fin.op = "decode" /\ fout.done /\ Len(fin.bytes) >= 4) =>
          /\ ((fin.bytes[3] % 8) \notin {3, 4, 5} \/ fin.bytes[4] >= 100) =>
                (~fout.res.ok /\ fout.res.err = "InvalidInput")
          /\ fout.res.ok =>
                /\ fout.res.val.code = (fin.bytes[3] % 8) * 100 + fin.bytes[4]
                /\ fout.res.val.reason_phrase = SubSeq(fin.bytes, 5, Len(fin.bytes))
          /\ ((fin.bytes[3] % 8) \in {3, 4, 5} /\ fin.bytes[4] < 100
                /\ IsUtf8(SubSeq(fin.bytes, 5, Len(fin.bytes)))) => fout.res.ok

\* The error code 438 with the phrase "No" has been encoded to the bytes
\* 00 00 04 26 4e 6f and decoded back.
C19_Witness ==
    /\ fin.op = "new"
    /\ "back" \in DOMAIN fout
    /\ fin.code = 438
    /\ fout.bytes = <<0, 0, 4, 38, 78, 111>>
    /\ fout.back.ok

(***************************************************************************)
(* Specification SpecText: the constructors of USERNAME, REALM, NONCE and  *)
(* SOFTWARE on texts around their limits, and the message decoder on a     *)
(* Binding request that carries each text, given to it whole.              *)
(***************************************************************************)
\* MessageDecoder::decode followed by finish_decoding on the whole of `buf`,
\* with the end-of-stream mark set.
MessageDecoder_decode_from_bytes(buf, active) ==
    With(MessageDecoder_decode(NewMessageDecoder, buf, TRUE, active), LAMBDA r :
        IF r.err # "" THEN DecodeErr(r.err)
        ELSE IF r.used # Len(buf) THEN DecodeErr("InvalidInput")
        ELSE MessageDecoder_finish_decoding(r.dec).res)

\* n letters, and n two-byte characters.
Letters(n) == [i \in 1..n |-> 97]

TwoByteChars(n) == [i \in 1..(2 * n) |-> IF i % 2 = 1 THEN 195 ELSE 169]

\* Texts around 128 characters and around 513 bytes.
TextSamples ==
    {<<>>, <<102, 111, 111>>, Letters(127), Letters(128), TwoByteChars(127),
     TwoByteChars(128), Letters(512), Letters(513), TwoByteChars(256),
     TwoByteChars(256) \o Letters(1), Letters(600)}

\* A Binding request whose only attribute holds the text.
TextStream(kind, text) ==
    WellFormed(1, Tid3, Tlv(CODEPOINT(kind), text, Zeros(PadLen(Len(text)))))

InitText ==
    /\ fin \in [op : {"new", "decode"}, kind : TextKinds, text : TextSamples]
    /\ fout = [done |-> FALSE]
    /\ Idle

\* Username::new, Realm::new, Nonce::new or Software::new of the text.
TextNew ==
    /\ fin.op = "new"
    /\ ~fout.done
    /\ fout' = [done |-> TRUE, res |-> Text_new(fin.kind, fin.text)]
    /\ UNCHANGED <<fin, mainVars>>

\* The message decoder on the request that carries the text.
DecodeText ==
    /\ fin.op = "decode"
    /\ ~fout.done
    /\ fout' = [done |-> TRUE,
                res |-> MessageDecoder_decode_from_bytes(TextStream(fin.kind, fin.text),
                                                         Rfc5389Kinds)]
    /\ UNCHANGED <<fin, mainVars>>

NextText == TextNew \/ DecodeText

SpecText == InitText /\ [][NextText]_vars

\* The text is at or over the limit of its attribute: 513 bytes for
\* USERNAME, 128 characters for REALM, NONCE and SOFTWARE.
TooLong(kind, text) ==
    IF kind = "Username" THEN Len(text) >= 513
    ELSE Cardinality({i \in 1..Len(text) : text[i] < 128 \/ text[i] > 191}) >= 128

\* C20: a USERNAME of 513 bytes or more and a REALM, NONCE or SOFTWARE of
\* 128 characters or more is refused with InvalidInput by the constructor
\* and makes a decoded message a BrokenMessage; every shorter value is
\* accepted by both.
C20_TextLimits ==
    /\ (fin.op = "new" /\ fin.kind \in TextKinds /\ fout.done) =>
          IF TooLong(fin.kind, fin.text)
          THEN ~fout.res.ok /\ fout.res.err = "InvalidInput"
          ELSE fout.res.ok /\ fout.res.val = fin.text
    /\ (fin.op = "decode" /\ fin.kind \in TextKinds /\ fout.done) =>
          IF TooLong(fin.kind, fin.text)
          THEN fout.res.kind = "BrokenMessage" /\ fout.res.error = "InvalidInput"
          ELSE /\ fout.res.kind = "Message"
               /\ Len(fout.res.attributes) = 1
               /\ fout.res.attributes[1].known
               /\ fout.res.attributes[1].inner.kind = fin.kind
               /\ fout.res.attributes[1].inner.v = fin.text

\* A request with a REALM of 128 two-byte characters has been decoded to a
\* BrokenMessage.
C20_Witness ==
    /\ fin.op = "decode"
    /\ fin.kind = "Realm"
    /\ fout.done
    /\ Len(fin.text) = 256
    /\ fout.res.kind = "BrokenMessage"

(***************************************************************************)
(* Specification SpecChannel: channel numbers as ChannelNumber::new, min   *)
(* and max build them, as wrapping_increment steps them, and as the        *)
(* CHANNEL-NUMBER value codec writes and reads them.                       *)
(***************************************************************************)
\* ChannelNumberDecoder::decode followed by finish_decoding on the whole of
\* `buf`, with the end-of-stream mark set.
ChannelNumberDecoder_decode_from_bytes(buf) ==
    With(ValueDecoder_decode("ChannelNumber", NewValueDecoder, buf, TRUE), LAMBDA s :
        IF s.err # "" THEN Err(s.err)
        ELSE IF s.used # Len(buf) THEN Err("InvalidInput")
        ELSE ValueDecoder_finish_decoding("ChannelNumber", s.d))

ChannelSamples == {0, 64, 79, 16383, 16384, 16385, 20478, 20479, 20480, 32768, 65535}

ChannelByteSamples ==
    {<<b1, b2>> \o low : b1 \in {0, 63, 64, 79, 80, 255}, b2 \in {0, 255},
                         low \in {<<0, 0>>, <<1, 255>>}}
    \cup {<<>>, <<64, 0>>, <<64, 0, 0, 0, 0>>}

NoChannel == [done |-> FALSE]

InitChannel ==
    /\ fin \in [op : {"new"}, n : ChannelSamples]
               \cup [op : {"min", "max"}]
               \cup [op : {"decode"}, bytes : ChannelByteSamples]
    /\ fout = NoChannel
    /\ Idle

\* The state once a constructor or the decoder has returned `res`.
Made(res) ==
    [done |-> TRUE, res |-> res, steps |-> 0, prev |-> 0, bytes |-> <<>>, back |-> Err("")]

\* ChannelNumber::new of the sampled number.
ChannelNew ==
    /\ fin.op = "new"
    /\ ~fout.done
    /\ fout' = Made(ChannelNumber_new(fin.n))
    /\ UNCHANGED <<fin, mainVars>>

\* ChannelNumber::min and ChannelNumber::max.
ChannelMinMax ==
    /\ fin.op \in {"min", "max"}
    /\ ~fout.done
    /\ fout' = Made(Ok(IF fin.op = "min" THEN ChannelNumber_MIN ELSE ChannelNumber_MAX))
    /\ UNCHANGED <<fin, mainVars>>

\* ChannelNumberDecoder on the sampled bytes.
ChannelDecode ==
    /\ fin.op = "decode"
    /\ ~fout.done
    /\ fout' = Made(ChannelNumberDecoder_decode_from_bytes(fin.bytes))
    /\ UNCHANGED <<fin, mainVars>>

\* wrapping_increment of the channel number at hand.
ChannelIncrement ==
    /\ fout.done
    /\ fout.res.ok
    /\ fout.bytes = <<>>
    /\ fout' = [fout EXCEPT !.res = Ok(ChannelNumber_wrapping_increment(fout.res.val)),
                            !.prev = fout.res.val,
                            !.steps = 1]
    /\ UNCHANGED <<fin, mainVars>>

\* ChannelNumberEncoder on the channel number at hand.
ChannelEncode ==
    /\ fout.done
    /\ fout.res.ok
    /\ fout.bytes = <<>>
    /\ fout' = [fout EXCEPT !.bytes = ValueEncoder_bytes(Attr("ChannelNumber", fout.res.val))]
    /\ UNCHANGED <<fin, mainVars>>

\* ChannelNumberDecoder on the bytes the encoder wrote.
ChannelDecodeEncoded ==
    /\ fout.done
    /\ fout.bytes # <<>>
    /\ ~fout.back.ok
    /\ fout' = [fout EXCEPT !.back = ChannelNumberDecoder_decode_from_bytes(fout.bytes)]
    /\ UNCHANGED <<fin, mainVars>>

NextChannel ==
    \/ ChannelNew
    \/ ChannelMinMax
    \/ ChannelDecode
    \/ ChannelIncrement
    \/ ChannelEncode
    \/ ChannelDecodeEncoded

SpecChannel == InitChannel /\ [][NextChannel]_vars

\* C21: every channel number, from new, min, max, wrapping_increment or the
\* decoder, is in 0x4000..0x4FFF, so its first big-endian byte is in 64..79;
\* new and the decoder are InvalidInput outside that range;
\* wrapping_increment takes 0x4FFF to 0x4000 and any other n to n + 1; on the
\* wire the number is the high half of a u32 whose low half is zero.
C21_ChannelRange ==
    (fin.op \in {"new", "min", "max", "decode"} /\ fout.done) =>
        /\ fout.res.ok =>
              /\ fout.res.val >= 4 * 4096
              /\ fout.res.val <= 5 * 4096 - 1
              /\ fout.res.val \div 256 \in 64..79
        /\ (fin.op = "new" /\ fout.steps = 0) =>
              /\ fout.res.ok <=> (fin.n >= 4 * 4096 /\ fin.n <= 5 * 4096 - 1)
              /\ fout.res.ok => fout.res.val = fin.n
              /\ ~fout.res.ok => fout.res.err = "InvalidInput"
        /\ (fin.op = "decode" /\ fout.steps = 0 /\ Len(fin.bytes) = 4) =>
              /\ fout.res.ok <=> fin.bytes[1] \in 64..79
              /\ fout.res.ok => fout.res.val = fin.bytes[1] * 256 + fin.bytes[2]
              /\ ~fout.res.ok => fout.res.err = "InvalidInput"
        /\ fout.steps = 1 =>
              /\ fout.res.ok
              /\ fout.res.val = IF fout.prev = 5 * 4096 - 1 THEN 4 * 4096 ELSE fout.prev + 1
        /\ fout.bytes # <<>> =>
              fout.bytes = <<fout.res.val \div 256, fout.res.val % 256, 0, 0>>
        /\ fout.back.ok => fout.back.val = fout.res.val

\* wrapping_increment has taken 0x4FFF to 0x4000, and the result has been
\* encoded to 40 00 00 00 and decoded back.
C21_Witness ==
    /\ fout.done
    /\ fout.steps = 1
    /\ fout.prev = 5 * 4096 - 1
    /\ fout.res.ok
    /\ fout.bytes = <<64, 0, 0, 0>>
    /\ fout.back.ok

(***************************************************************************)
(* CHANGE-REQUEST on the wire and back.                                    *)
(***************************************************************************)
\* C22: CHANGE-REQUEST is a u32 with the change-IP flag in bit 2 (0x4) and
\* the change-port flag in bit 1 (0x2); the decoder reads the bits the
\* encoder writes, so a ChangeRequest that is encoded and decoded comes back
\* with the same two flags.
C22_ChangeRequestBits ==
    (/\ scen.plan = "message"
     /\ hist.wire # <<>>
     /\ Len(scen.message.attributes) = 1
     /\ scen.message.attributes[1].inner.kind = "ChangeRequest") =>
        /\ SubSeq(hist.wire, 21, 28) =
              <<0, 3, 0, 4, 0, 0, 0,
                (IF scen.message.attributes[1].inner.v.ip THEN 4 ELSE 0)
                  + (IF scen.message.attributes[1].inner.v.port THEN 2 ELSE 0)>>
        /\ result.some =>
              /\ result.res.kind = "Message"
              /\ Len(result.res.attributes) = 1
              /\ result.res.attributes[1].inner.kind = "ChangeRequest"
              /\ result.res.attributes[1].inner.v = scen.message.attributes[1].inner.v

(***************************************************************************)
(* Specification SpecBytes: Data::new and MobilityTicket::new on byte      *)
(* vectors of small lengths and of the lengths around 0xFFFF.  A vector is *)
(* vec![fill; len], held as [fill, len].                                   *)
(***************************************************************************)
\* Data::new
Data_new(data) ==
    IF data.len <= 65535 THEN Ok(data) ELSE Err("InvalidInput")

\* MobilityTicket::new: the length check is commented out.
MobilityTicket_new(data) == Ok(data)

\* Lengths of the sampled byte vectors.
VecLenSamples == 0..32 \cup 65500..65600 \cup {131071, 131072}

InitBytes ==
    /\ fin \in [op : {"data", "ticket"}, data : [fill : {0, 255}, len : VecLenSamples]]
    /\ fout = [done |-> FALSE]
    /\ Idle

\* Data::new of the sampled vector.
DataNew ==
    /\ fin.op = "data"
    /\ ~fout.done
    /\ fout' = [done |-> TRUE, res |-> Data_new(fin.data)]
    /\ UNCHANGED <<fin, mainVars>>

\* MobilityTicket::new of the sampled vector.
MobilityTicketNew ==
    /\ fin.op = "ticket"
    /\ ~fout.done
    /\ fout' = [done |-> TRUE, res |-> MobilityTicket_new(fin.data)]
    /\ UNCHANGED <<fin, mainVars>>

NextBytes == DataNew \/ MobilityTicketNew

SpecBytes == InitBytes /\ [][NextBytes]_vars

\* C23: Data::new and MobilityTicket::new return an error for a vector of
\* more than 0xFFFF bytes and succeed, keeping the bytes, for every length
\* from 0 to 0xFFFF.
C23_BytesLimit ==
    (fin.op \in {"data", "ticket"} /\ fout.done) =>
        /\ fout.res.ok <=> fin.data.len <= 16 * 4096 - 1
        /\ fout.res.ok => fout.res.val = fin.data

(***************************************************************************)
(* The error catalog.                                                      *)
(***************************************************************************)
\* The catalog as it is listed: the code and the reason phrase of each error.
ListedErrors ==
    {\* 300 Try Alternate
    [name |-> "TryAlternate", code |-> 300,
     phrase |-> <<84, 114, 121, 32, 65, 108, 116, 101, 114, 110, 97, 116, 101>>],
    \* 400 Bad Request
    [name |-> "BadRequest", code |-> 400,
     phrase |-> <<66, 97, 100, 32, 82, 101, 113, 117, 101, 115, 116>>],
    \* 401 Unauthorized
    [name |-> "Unauthorized", code |-> 401,
     phrase |-> <<85, 110, 97, 117, 116, 104, 111, 114, 105, 122, 101, 100>>],
    \* 403 Forbidden
    [name |-> "Forbidden", code |-> 403,
     phrase |-> <<70, 111, 114, 98, 105, 100, 100, 101, 110>>],
    \* 405 Mobility Forbidden
    [name |-> "MobilityForbidden", code |-> 405,
     phrase |-> <<77, 111, 98, 105, 108, 105, 116, 121, 32, 70, 111, 114, 98, 105, 100, 100,
                101, 110>>],
    \* 420 Unknown Attribute
    [name |-> "UnknownAttribute", code |-> 420,
     phrase |-> <<85, 110, 107, 110, 111, 119, 110, 32, 65, 116, 116, 114, 105, 98, 117, 116,
                101>>],
    \* 437 Allocation Mismatch
    [name |-> "AllocationMismatch", code |-> 437,
     phrase |-> <<65, 108, 108, 111, 99, 97, 116, 105, 111, 110, 32, 77, 105, 115, 109, 97,
                116, 99, 104>>],
    \* 438 Stale Nonce
    [name |-> "StaleNonce", code |-> 438,
     phrase |-> <<83, 116, 97, 108, 101, 32, 78, 111, 110, 99, 101>>],
    \* 440 Address Family Not Supported
    [name |-> "AddressFamilyNotSupported", code |-> 440,
     phrase |-> <<65, 100, 100, 114, 101, 115, 115, 32, 70, 97, 109, 105, 108, 121, 32, 78,
                111, 116, 32, 83, 117, 112, 112, 111, 114, 116, 101, 100>>],
    \* 441 Wrong Credentials
    [name |-> "WrongCredentials", code |-> 441,
     phrase |-> <<87, 114, 111, 110, 103, 32, 67, 114, 101, 100, 101, 110, 116, 105, 97, 108,
                115>>],
    \* 442 Unsupported Transport Protocol
    [name |-> "UnsupportedTransportProtocol", code |-> 442,
     phrase |-> <<85, 110, 115, 117, 112, 112, 111, 114, 116, 101, 100, 32, 84, 114, 97, 110,
                115, 112, 111, 114, 116, 32, 80, 114, 111, 116, 111, 99, 111, 108>>],
    \* 443 Peer Address Family Mismatch
    [name |-> "PeerAddressFamilyMismatch", code |-> 443,
     phrase |-> <<80, 101, 101, 114, 32, 65, 100, 100, 114, 101, 115, 115, 32, 70, 97, 109,
                105, 108, 121, 32, 77, 105, 115, 109, 97, 116, 99, 104>>],
    \* 486 Allocation Quota Reached
    [name |-> "AllocationQuotaReached", code |-> 486,
     phrase |-> <<65, 108, 108, 111, 99, 97, 116, 105, 111, 110, 32, 81, 117, 111, 116, 97, 32,
                82, 101, 97, 99, 104, 101, 100>>],
    \* 487 Role Conflict
    [name |-> "RoleConflict", code |-> 487,
     phrase |-> <<82, 111, 108, 101, 32, 67, 111, 110, 102, 108, 105, 99, 116>>],
    \* 500 Server Error
    [name |-> "ServerError", code |-> 500,
     phrase |-> <<83, 101, 114, 118, 101, 114, 32, 69, 114, 114, 111, 114>>],
    \* 508 Insufficient Capacity
    [name |-> "InsufficientCapacity", code |-> 508,
     phrase |-> <<73, 110, 115, 117, 102, 102, 105, 99, 105, 101, 110, 116, 32, 67, 97, 112,
                97, 99, 105, 116, 121>>]}

Listed(name) == CHOOSE e \in ListedErrors : e.name = name

\* "Address Family not Supported", the phrase with a small n.
PhraseSmallNot ==
    <<65, 100, 100, 114, 101, 115, 115, 32, 70, 97, 109, 105, 108, 121, 32, 110, 111, 116, 32,
      83, 117, 112, 112, 111, 114, 116, 101, 100>>

\* C24 as stated: converting an error constant of the catalog into an
\* ErrorCode does not panic and gives exactly the listed code and the listed
\* reason phrase, "Address Family Not Supported" for 440.
C24_CatalogAsListed ==
    (fin.op = "from" /\ fout.done) =>
        /\ ~fout.res.panic
        /\ fout.res.val.code = Listed(fin.error).code
        /\ fout.res.val.reason_phrase = Listed(fin.error).phrase

\* C24: converting an error constant of the catalog into an ErrorCode does
\* not panic and gives exactly the listed code and the listed reason
\* phrase, except that the phrase of 440 is "Address Family not Supported",
\* with a small n.
C24_CatalogExact ==
    (fin.op = "from" /\ fout.done) =>
        /\ ~fout.res.panic
        /\ fout.res.val.code = Listed(fin.error).code
        /\ fout.res.val.reason_phrase =
              IF fin.error = "AddressFamilyNotSupported" THEN PhraseSmallNot
              ELSE Listed(fin.error).phrase

\* InsufficientCapacity has been converted into the ErrorCode 508.
C24_Witness ==
    /\ fin.op = "from"
    /\ fout.done
    /\ fin.error = "InsufficientCapacity"
    /\ ~fout.res.panic
    /\ fout.res.val.code = 508

(***************************************************************************)
(* Specification SpecLength: MessageEncoder::start_encoding on messages    *)
(* whose attribute values and attribute sections are around the 16-bit     *)
(* limits.  A sampled attribute is [kind, len]: a RawAttribute, DATA or    *)
(* MOBILITY-TICKET whose value is len zero bytes.                          *)
(***************************************************************************)
ValueLenSamples ==
    {0, 1, 4, 32760, 32764, 65528, 65529, 65531, 65532, 65535, 65536, 65537, 70000}

PairLenSamples == {0, 4, 32760, 32764, 65528, 65536}

\* Attribute lists a caller can build: Data::new refuses more than 0xFFFF
\* bytes, RawAttribute::new and MobilityTicket::new refuse nothing.
SizedListSamples ==
    {<<[kind |-> k, len |-> n]>> : k \in {"Raw", "MobilityTicket"}, n \in ValueLenSamples}
    \cup {<<[kind |-> "Data", len |-> n]>> : n \in {m \in ValueLenSamples : m <= 65535}}
    \cup {<<[kind |-> "Raw", len |-> n], [kind |-> "Raw", len |-> m]>> :
            n \in PairLenSamples, m \in PairLenSamples}

\* The attribute a sampled [kind, len] stands for.
SizedAttr(x) ==
    IF x.kind = "Raw" THEN Attr("Raw", [attr_type |-> 32767, value |-> Zeros(x.len)])
    ELSE Attr(x.kind, Zeros(x.len))

InitLength ==
    /\ fin \in [op : {"start"}, attrs : SizedListSamples]
    /\ fout = [done |-> FALSE]
    /\ Idle

\* MessageEncoder::start_encoding of a Binding request with the sampled
\* attributes, on a new encoder: its error, the message_len it has set and
\* the number of bytes it has to write.
StartSized ==
    /\ fin.op = "start"
    /\ ~fout.done
    /\ \E r \in {MessageEncoder_start_encoding(
                    NewMessageEncoder,
                    add_attributes(Message_new(0, 1, Tid3),
                                   [i \in 1..Len(fin.attrs) |-> SizedAttr(fin.attrs[i])]))} :
           fout' = [done |-> TRUE, err |-> r.err, message_len |-> r.enc.message_len,
                    pending |-> Len(MessageEncoder_pending(r.enc))]
    /\ UNCHANGED <<fin, mainVars>>

NextLength == StartSized

SpecLength == InitLength /\ [][NextLength]_vars

\* The bytes an attribute list takes in the section: 4 bytes of header, the
\* value and the padding to a multiple of four for each attribute.
RECURSIVE SizedSection(_)
SizedSection(attrs) ==
    IF attrs = <<>> THEN 0
    ELSE 4 + attrs[1].len + ((4 - (attrs[1].len % 4)) % 4) + SizedSection(Tail(attrs))

\* C25: MessageEncoder::start_encoding is InvalidInput when the value of an
\* attribute is 0x10000 bytes or longer or when the attribute section,
\* headers, values and padding together, is longer than 0xFFFF bytes; in
\* every other case the length checks pass and the header length is that of
\* the section.
C25_LengthChecks ==
    (fin.op = "start" /\ fout.done) =>
        IF \/ \E i \in 1..Len(fin.attrs) : fin.attrs[i].len >= 16 * 4096
           \/ SizedSection(fin.attrs) > 16 * 4096 - 1
        THEN fout.err = "InvalidInput"
        ELSE /\ fout.err = ""
             /\ fout.message_len = <<SizedSection(fin.attrs) \div 256,
                                     SizedSection(fin.attrs) % 256>>
             /\ fout.pending = 20 + SizedSection(fin.attrs)

\* start_encoding has refused two attributes of 32764 bytes each, whose
\* section is 0x10000 bytes long.
C25_Witness ==
    /\ fin.op = "start"
    /\ fout.done
    /\ Len(fin.attrs) = 2
    /\ fin.attrs[1].len = 32764
    /\ fin.attrs[2].len = 32764
    /\ fout.err = "InvalidInput"

(***************************************************************************)
(* A byte stream cut into chunks.  The caller hands a MessageDecoder the   *)
(* stream one chunk per decode call, empty chunks among them, and signals  *)
(* the end of the stream, if it signals it at all, with the chunk that     *)
(* holds the last byte.                                                    *)
(***************************************************************************)
\* Chunk lengths: one byte, a few bytes, and the whole stream.
ChunkSizes == {1, 3, 256}

\* Streams that end early: sampled streams cut before their last byte.
CutSamples == {17, 22, 27}

ChunkScenarios ==
    {s \in StreamScenarios :
        \/ s.tag \in {"known", "malformed", "badheader"}
        \/ s.tag = "unknown" /\ Len(s.stream) = 20 + s.len}
    \cup {[s EXCEPT !.tag = "cut", !.stream = Take(s.stream, k)] :
            s \in {x \in StreamScenarios : x.tag \in {"known", "malformed"}},
            k \in CutSamples}

InitChunks ==
    /\ fin \in [op : {"chunks"}, eos : BOOLEAN]
    /\ fout = [done |-> FALSE, empty |-> FALSE, used |-> 0]
    /\ scen \in ChunkScenarios
    /\ pc = "decode"
    /\ msg = scen.message
    /\ encoder = NewMessageEncoder
    /\ out = <<>>
    /\ encErr = ""
    /\ input = scen.stream
    /\ pos = 0
    /\ decoder = NewMessageDecoder
    /\ decErr = ""
    /\ result = NoResult
    /\ hist = NoHistory

\* MessageDecoder::decode on the next chunk of n bytes.
DecodeChunk(n) == Decode(n, fin.eos /\ pos + n >= Len(input))

\* MessageDecoder::decode on an empty chunk, with no end of stream, at any
\* point of the stream.
DecodeEmptyChunk ==
    /\ pc = "decode"
    /\ \E r \in {MessageDecoder_decode(decoder, <<>>, FALSE, scen.active)} :
           /\ decoder' = r.dec
           /\ pos' = pos + r.used
           /\ decErr' = r.err
           /\ pc' = IF r.err # "" THEN "done" ELSE "decode"
           /\ fout' = [fout EXCEPT !.empty = TRUE, !.used = IF r.used > @ THEN r.used ELSE @]
    /\ UNCHANGED <<fin, scen, msg, encoder, out, encErr, input, result, hist>>

NextChunks ==
    \/ \E n \in ChunkSizes : DecodeChunk(n)
    \/ DecodeEmptyChunk
    \/ FinishDecoding

SpecChunks == InitChunks /\ [][NextChunks]_vars

\* The whole stream in one decode call, then finish_decoding.
WholeStream(stream, eos, active) ==
    With(MessageDecoder_decode(NewMessageDecoder, stream, eos, active), LAMBDA r :
        IF r.err # "" THEN [used |-> r.used, err |-> r.err, res |-> NoResult.res]
        ELSE [used |-> r.used, err |-> "",
              res |-> MessageDecoder_finish_decoding(r.dec).res])

HookCall_uncut(pass, message, i) ==
    With(IF pass = "before" THEN before_encode(message.attributes[i].inner, message)
         ELSE after_decode(message.attributes[i].inner, message), LAMBDA r :
        [given |-> message, result |-> r,
         message |-> IF r.ok THEN [message EXCEPT !.attributes[i].inner = r.val]
                     ELSE message])

\* The body of the loop: the list is cut to the attributes before attribute
\* i (set_len(i)), the hook of attribute i is called with the cut message
\* and updates attribute i in place, the list gets its length back
\* (set_len(attributes_len)), and only then the hook's result is looked at.
HookCall(pass, message, i) ==
    With([message EXCEPT !.attributes = SubSeq(message.attributes, 1, i - 1)], LAMBDA cut :
    With(IF pass = "before" THEN before_encode(message.attributes[i].inner, cut)
         ELSE after_decode(message.attributes[i].inner, cut), LAMBDA r :
        [given |-> cut, result |-> r,
         message |-> IF r.ok
                     THEN [message EXCEPT
                             !.attributes = SubSeq(cut.attributes, 1, i - 1)
                                            \o <<[message.attributes[i] EXCEPT
                                                    !.inner = r.val]>>
                                            \o SubSeq(message.attributes, i + 1,
                                                      Len(message.attributes))]
                     ELSE message]))

\* The attributes of a stream as AttributesDecoder::finish_decoding returns
\* them, before any after_decode hook has run.
DecodedBeforeHooks(s) ==
    With(MessageDecoder_decode(NewMessageDecoder, s.stream, TRUE, s.active), LAMBDA r :
    With(AttributesDecoder_finish_decoding(r.dec.attributes.inner), LAMBDA f :
        [class |-> r.dec.header.item.class, method |-> r.dec.header.item.method,
         transaction_id |-> r.dec.header.item.transaction_id,
         attributes |-> IF f.res.ok THEN f.res.val ELSE <<>>]))

HookStreams ==
    {s \in StreamScenarios : s.tag \in {"known", "fingerprint", "integrity"}
                             \/ (s.tag = "unknown" /\ Len(s.stream) = 20 + s.len)}

InitHooks ==
    /\ \/ \E k \in 1..Len(MessageScenarios) :
            fin = [op |-> "hooks", pass |-> "before", message |-> MessageScenarios[k].message]
       \/ \E s \in HookStreams :
            fin = [op |-> "hooks", pass |-> "after", message |-> DecodedBeforeHooks(s)]
    /\ fout = [done |-> FALSE, i |-> 1, message |-> fin.message, log |-> <<>>, err |-> ""]
    /\ Idle

\* One turn of the loop.
CallHook ==
    /\ fin.op = "hooks"
    /\ ~fout.done
    /\ fout.i <= Len(fin.message.attributes)
    /\ \E c \in {HookCall(fin.pass, fout.message, fout.i)} :
           fout' = [done |-> ~c.result.ok,
                    i |-> fout.i + 1,
                    message |-> c.message,
                    log |-> Append(fout.log, [at |-> fout.i, given |-> c.given,
                                              before |-> fout.message, after |-> c.message,
                                              ok |-> c.result.ok]),
                    err |-> c.result.err]
    /\ UNCHANGED <<fin, mainVars>>

\* The loop has run over every attribute.
HooksDone ==
    /\ fin.op = "hooks"
    /\ ~fout.done
    /\ fout.i > Len(fin.message.attributes)
    /\ fout' = [fout EXCEPT !.done = TRUE]
    /\ UNCHANGED <<fin, mainVars>>

NextHooks == CallHook \/ HooksDone

SpecHooks == InitHooks /\ [][NextHooks]_vars

\* C27: each pass calls the hook once per attribute in message order and
\* stops at the first hook error; the hook of attribute i is given a message
\* of the same class, method and transaction id that holds exactly the
\* attributes before attribute i; the call changes no attribute other than
\* attribute i; after every call, one that failed too, the list has its
\* original length; and the pass as a whole gives what its calls give.
C27_HookFrame ==
    fin.op = "hooks" =>
        /\ Len(fout.message.attributes) = Len(fin.message.attributes)
        /\ \A k \in 1..Len(fout.log) :
             With(fout.log[k], LAMBDA c :
                /\ c.at = k
                /\ k < Len(fout.log) => c.ok
                /\ c.given.class = fin.message.class
                /\ c.given.method = fin.message.method
                /\ c.given.transaction_id = fin.message.transaction_id
                /\ c.given.attributes = SubSeq(c.before.attributes, 1, k - 1)
                /\ Len(c.after.attributes) = Len(fin.message.attributes)
                /\ \A j \in 1..Len(fin.message.attributes) :
                     j # k => c.after.attributes[j] = c.before.attributes[j])
        /\ fout.err # "" => (fout.done /\ ~fout.log[Len(fout.log)].ok)
        /\ fout.done =>
             With(IF fin.pass = "before" THEN BeforeEncodePass(fin.message, 1)
                  ELSE AfterDecodePass(fin.message, 1), LAMBDA p :
                /\ p.err = fout.err
                /\ p.ok => (p.val = fout.message
                            /\ Len(fout.log) = Len(fin.message.attributes)))

\* The after_decode pass over a decoded message of three attributes has
\* stopped at the FINGERPRINT, its second attribute, whose hook failed.
C27_Witness ==
    /\ fin.op = "hooks"
    /\ fin.pass = "after"
    /\ Len(fin.message.attributes) = 3
    /\ fout.done
    /\ fout.err = "InvalidInput"
    /\ Len(fout.log) = 2
    /\ fout.log[2].given.attributes = <<fout.message.attributes[1]>>

(***************************************************************************)
(* One MessageDecoder for two messages: a stream whose message is broken,  *)
(* then a well-formed one.  fout holds the decoder between the two and     *)
(* what finish_decoding returned for each.                                 *)
(***************************************************************************)
\* Broken messages: the malformed samples, and a SOFTWARE followed by a
\* MAPPED-ADDRESS of an unknown address family, alone and before a USERNAME.
BrokenStreams ==
    {s \in StreamScenarios : s.tag = "malformed" /\ Len(s.stream) = 20 + s.len}
    \cup {StreamScenario("malformed", Rfc5389Kinds, 1, Len(b), Tid3, WellFormed(1, Tid3, b)) :
            b \in {Tlv(32802, <<102, 111, 111>>, <<0>>)
                       \o Tlv(1, <<0, 3, 0, 80, 127, 0, 0, 1>>, <<>>) \o t :
                   t \in {<<>>, Tlv(6, <<101, 118>>, <<0, 0>>)}}}

\* Well-formed messages.
FollowingStreams ==
    {s \in StreamScenarios :
        /\ s.tag \in {"known", "unknown"}
        /\ Len(s.stream) = 20 + s.len}

InitReuse ==
    /\ fin \in {x \in [op : {"reuse"}, first : BrokenStreams, second : FollowingStreams] :
                    x.first.active = x.second.active}
    /\ fout = [stage |-> 0, decoder |-> NewMessageDecoder, first |-> NoResult.res,
               second |-> NoResult.res, err |-> ""]
    /\ Idle

\* decode and finish_decoding of the first stream.
DecodeBroken ==
    /\ fin.op = "reuse"
    /\ fout.stage = 0
    /\ \E r \in {MessageDecoder_decode(fout.decoder, fin.first.stream, FALSE,
                                        fin.first.active)} :
       \E f \in {MessageDecoder_finish_decoding(r.dec)} :
           fout' = [fout EXCEPT !.stage = 1, !.decoder = f.dec, !.first = f.res,
                                !.err = r.err]
    /\ UNCHANGED <<fin, mainVars>>

\* decode and finish_decoding of the second stream with the same decoder.
DecodeFollowing ==
    /\ fin.op = "reuse"
    /\ fout.stage = 1
    /\ fout.err = ""
    /\ \E r \in {MessageDecoder_decode(fout.decoder, fin.second.stream, FALSE,
                                        fin.second.active)} :
           fout' = [fout EXCEPT !.stage = 2, !.decoder = r.dec, !.err = r.err,
                                !.second = IF r.err # "" THEN DecodeErr(r.err)
                                           ELSE MessageDecoder_finish_decoding(r.dec).res]
    /\ UNCHANGED <<fin, mainVars>>

NextReuse == DecodeBroken \/ DecodeFollowing

SpecReuse == InitReuse /\ [][NextReuse]_vars

\* C28: after a MessageDecoder has returned a BrokenMessage, it decodes a
\* following well-formed message to what a fresh decoder decodes it to.
C28_ReuseLikeFresh ==
    (fin.op = "reuse" /\ fout.stage = 2 /\ fout.first.kind = "BrokenMessage") =>
        With(WholeStream(fin.second.stream, FALSE, fin.second.active), LAMBDA w :
            /\ fout.err = w.err
            /\ fout.second = w.res)

(***************************************************************************)
(* A MessageEncoder after start_encoding has refused a message: an encode  *)
(* call, then start_encoding of a message it can encode.  fout holds the   *)
(* encoder, the error of the refused start, what encode wrote, and the     *)
(* error and the bytes of the second start.                                *)
(***************************************************************************)
\* Attribute lists start_encoding refuses: a value of 0x10000 bytes or more,
\* alone or before or after another attribute, and two sections that are
\* longer than 0xFFFF bytes.
RejectedListSamples ==
    {l \in SizedListSamples : \E i \in 1..Len(l) : l[i].len >= 65536}
    \cup {<<[kind |-> "Raw", len |-> 65532]>>,
          <<[kind |-> "Raw", len |-> 32764], [kind |-> "Raw", len |-> 32764]>>}

\* Messages start_encoding accepts.
AcceptedIndexes == {k \in 1..Len(MessageScenarios) : k <= 4}

InitReject ==
    /\ fin \in [op : {"reject"}, attrs : RejectedListSamples, next : AcceptedIndexes]
    /\ fout = [stage |-> 0, enc |-> NewMessageEncoder, err |-> "", idle |-> TRUE,
               written |-> <<>>, nextErr |-> "", bytes |-> <<>>]
    /\ Idle

\* MessageEncoder::start_encoding of a Binding request with the sampled
\* attributes, on a new encoder.
StartRejected ==
    /\ fin.op = "reject"
    /\ fout.stage = 0
    /\ \E r \in {MessageEncoder_start_encoding(
                    NewMessageEncoder,
                    add_attributes(Message_new(0, 1, Tid3),
                                   [i \in 1..Len(fin.attrs) |-> SizedAttr(fin.attrs[i])]))} :
           fout' = [fout EXCEPT !.stage = 1, !.enc = r.enc, !.err = r.err,
                                !.idle = MessageEncoder_is_idle(r.enc)]
    /\ UNCHANGED <<fin, mainVars>>

\* MessageEncoder::encode into a buffer of n bytes after the refused start.
EncodeAfterReject(n) ==
    /\ fin.op = "reject"
    /\ fout.stage = 1
    /\ \E e \in {MessageEncoder_encode(fout.enc, n)} :
           fout' = [fout EXCEPT !.stage = 2, !.enc = e.enc, !.written = e.written]
    /\ UNCHANGED <<fin, mainVars>>

\* MessageEncoder::start_encoding of a message the encoder can encode, and
\* the bytes it then has to write.
StartAccepted ==
    /\ fin.op = "reject"
    /\ fout.stage \in {1, 2}
    /\ \E s \in {MessageEncoder_start_encoding(fout.enc, MessageScenarios[fin.next].message)} :
           fout' = [fout EXCEPT !.stage = 3, !.enc = NewMessageEncoder, !.nextErr = s.err,
                                !.bytes = IF s.err # "" THEN <<>>
                                          ELSE MessageEncoder_pending(s.enc)]
    /\ UNCHANGED <<fin, mainVars>>

NextReject ==
    \/ StartRejected
    \/ \E n \in BufferSizes : EncodeAfterReject(n)
    \/ StartAccepted

SpecReject == InitReject /\ [][NextReject]_vars

\* C29: when start_encoding has returned an error the encoder is as it was:
\* it is idle, a following encode call writes nothing, and a following
\* start_encoding of a message it can encode succeeds and gives exactly the
\* bytes of that message.
C29_RejectLeavesIdle ==
    (fin.op = "reject" /\ fout.stage >= 1 /\ fout.err # "") =>
        /\ fout.idle
        /\ fout.written = <<>>
        /\ fout.stage = 3 =>
             /\ fout.nextErr = ""
             /\ fout.bytes =
                  MessageEncoder_pending(
                      MessageEncoder_start_encoding(NewMessageEncoder,
                                                    MessageScenarios[fin.next].message).enc)

(***************************************************************************)
(* The header length Fingerprint::new and the MESSAGE-INTEGRITY            *)
(* constructors put into the bytes they digest, for messages with long     *)
(* attribute sections.  fout holds the outcome: a panic, an error, or the  *)
(* header length written.                                                  *)
(***************************************************************************)
\* Value lengths, multiples of four, of the one attribute of the message:
\* its section is four bytes longer.
DigestedValueLenSamples ==
    {4 * k : k \in 0..24} \cup {65480 + 4 * k : k \in 0..12}

DigestedMessage(len) ==
    add_attributes(Message_new(0, 1, Tid3),
                   <<Attr("Raw", [attr_type |-> 32767, value |-> Zeros(len)])>>)

InitDigested ==
    /\ fin \in [op : {"fingerprint", "integrity"}, len : DigestedValueLenSamples]
    /\ fout = [done |-> FALSE]
    /\ Idle

\* Fingerprint::new(message), also as after_decode calls it, in a build with
\* or without overflow checks.
FingerprintLength ==
    /\ fin.op = "fingerprint"
    /\ ~fout.done
    /\ \E r \in {encode_into_bytes(DigestedMessage(fin.len))} :
       \E checks \in BOOLEAN :
           fout' = IF ~r.ok
                   THEN [done |-> TRUE, panic |-> FALSE, err |-> r.err, len |-> 0]
                   ELSE IF checks /\ Fingerprint_final_len_overflows(Len(r.val))
                   THEN [done |-> TRUE, panic |-> TRUE, err |-> "", len |-> 0]
                   ELSE [done |-> TRUE, panic |-> FALSE, err |-> "",
                         len |-> Fingerprint_final_len(Len(r.val))]
    /\ UNCHANGED <<fin, mainVars>>

\* MessageIntegrity::message_into_bytes(message), as the constructors and
\* after_decode call it.
IntegrityLength ==
    /\ fin.op = "integrity"
    /\ ~fout.done
    /\ \E r \in {message_into_bytes(DigestedMessage(fin.len))} :
           fout' = [done |-> TRUE, panic |-> FALSE, err |-> r.err,
                    len |-> IF r.ok THEN U16from(SubSeq(r.val, 3, 4)) ELSE 0]
    /\ UNCHANGED <<fin, mainVars>>

NextDigested == FingerprintLength \/ IntegrityLength

SpecDigested == InitDigested /\ [][NextDigested]_vars

\* C30: for every message the encoder can encode, the header length used
\* for the checksum is the section length plus 8 (FINGERPRINT) or plus 24
\* (MESSAGE-INTEGRITY) when that fits in 16 bits, and an error is returned
\* when it does not; nothing overflows, underflows or is cut to 16 bits.
C30_DigestedLength ==
    (fin.op \in {"fingerprint", "integrity"} /\ fout.done) =>
        With(fin.len + 4 + (IF fin.op = "fingerprint" THEN 8 ELSE 24), LAMBDA sum :
            /\ ~fout.panic
            /\ IF sum <= 65535 THEN fout.err = "" /\ fout.len = sum
               ELSE fout.err # "")

====
